---- MODULE Spec2Model ----
(***************************************************************************)
(* Hybrid question answering over a Neo4j knowledge graph.                 *)
(*                                                                         *)
(* The model follows src/src/services/qa_service.py (QAService: the cached *)
(* GraphCypherQAChain, query(), refresh_schema(), get_qa_service()),       *)
(* src/src/services/vector_service.py (the semantic retriever) and the     *)
(* entry points that call them (src/src/api/routes/query.py,               *)
(* src/src/api/routes/admin.py, src/src/services/celery_service.py).       *)
(*                                                                         *)
(* Text is modelled as a sequence of tokens: "" is <<>>, concatenation is  *)
(* \o, and a text is empty exactly when its length is 0.                   *)
(***************************************************************************)
EXTENDS Integers, Sequences, FiniteSets, TLC

\* ------------------------------------------------------------------ bounds
\* The callers (threads, request handlers) that may hold a call at a time.
Callers == {"c1", "c2"}
\* The questions a caller may submit.
Questions == {"q1", "q2"}
\* How many times the vocabulary of the store changes in one behaviour.
MaxSchema == 2
\* The Document nodes that exist or may be ingested.
DocIds == {"d1"}
\* The coroutines that call execute_query on one event loop.
Coroutines == {"a", "b"}
\* The background tasks a run may submit.
TaskIds == {"k1", "k2"}
\* How many seconds of wall-clock time a behaviour covers.
MaxClock == 31
\* How many rows the store may give to one query.
MaxRows == 1001
\* The longest list the vector library may hand back to one search.
MaxPassages == 4
\* The Contract and Policy nodes the ingestions of a run may create.
MaxNodes == 2
\* The longest list of department names a policy may carry.
MaxDepts == 2
\* How many connections one service may try to open.
MaxConnects == 3
\* How many tasks are queued while questions of every length are sent.
MaxQueued == 1

\* ------------------------------------------------------- program constants
\* similarity_search(question, k=3)
K == 3
\* settings.llm_provider, settings.openai_model, settings.groq_model
\* settings.query_timeout, in seconds
query_timeout == 30
\* settings.query_max_results
query_max_results == 1000
\* time.time() returns seconds as a float: the model counts the wall clock in
\* tenths of a millisecond.
TicksPerSecond == 10000
llm_provider == "openai"
openai_model == "gpt-3.5-turbo"
groq_model == "mixtral-8x7b-32768"
\* QueryRequest.question: Field(..., min_length=3, max_length=500)
min_length == 3
max_length == 500

\* ------------------------------------------------------------------ values
\* The module-level service returned by get_qa_service(); every other
\* service is the one a request constructed for itself, named by its caller.
\* The processes: the API server and the Celery worker. Each has its own
\* neo4j_service, hence its own Neo4jGraph object, and its own module globals.
Procs == {"api", "worker"}
\* neo4j_service._graph is None
NoGraph == -1

GlobalService == "global"
Services == {GlobalService} \cup Callers

\* self._chain = None
NoneChain == [schema |-> -1]
\* A GraphCypherQAChain keeps the schema it read from the graph when built.
ChainOf(v) == [schema |-> v]

NoError == [type |-> "None", details |-> [question |-> ""], cause |-> "None"]
NoResponse == [question |-> ""]
NoPrompt == [question |-> "", structured_data |-> <<>>, context_docs |-> <<>>]
\* chain.invoke has not run in this call
NoRun == [validation |-> "none", executed |-> <<>>]
\* No answer of the result endpoint yet
NoReply == [status |-> "none", error |-> ""]
\* No message of the task in the queue
NoArgs == [question |-> "", include_cypher |-> FALSE]
\* The two connection services: Neo4jService (graph), AsyncNeo4jService (driver)
Handles == {"graph", "driver"}
\* contract_data / policy_data before the processor ran, and no result dict
NoData == [title |-> <<>>, client_name |-> <<>>, departments |-> <<>>]
NoContent == [parses |-> FALSE, kind |-> "none", value |-> NoData]
NoResult == [status |-> "none", document_type |-> "none", linked_client |-> <<>>, linked_departments |-> <<>>]

SchemaToken(v) == <<"schema0", "schema1", "schema2", "schema3", "schema4", "schema5">>[v + 1]

VARIABLES
    dbSchema,        \* the vocabulary (labels, properties) the store holds now
    dbDocs,          \* the Document nodes of the store
    dbEmbedded,      \* the Document nodes that carry an embedding property
    dbIndex,         \* whether vector_index_document exists
    dbEmployeeIndex, \* whether vector_index_employee exists (Employee nodes embedded)
    graph_schema,    \* graph.schema: the snapshot the Neo4jGraph of a process holds
    _chain,          \* QAService._chain, per service
    _global_qa_service, \* whether the module-level QAService exists
    warm,            \* per process: a chain was built since startup or the last invalidation
    pc,              \* where each caller stands
    op,              \* the operation a caller runs: "query", "refresh", "task" (before its query), "none"
    entry,           \* how the call came in: "service", "endpoint", "task", "admin"
    svc,             \* the service a caller's call runs on
    question,        \* query(question, ...)
    include_cypher,  \* query(..., include_cypher)
    built,           \* the chain from_llm returned, before it is stored
    chain,           \* the local `chain` of query()
    docs,            \* the local `docs` of query()
    vec_raised,      \* whether the except branch of the retrieval ran
    chain_context,   \* the hints handed to chain.invoke
    structured_data, \* the local `structured_data`
    cypher_query,    \* the local `cypher_query`
    synth_prompt,    \* the prompt given to the synthesis model
    synth_status,    \* how the synthesis step went: "none" before it ran
    response,        \* the dict query() returned
    error,           \* the exception the call raised
    clock,           \* time.time(), in units of 1/TicksPerSecond of a second
    start_time,      \* the local `start_time` of query()
    invoked_at,      \* the time at which query() called chain.invoke
    chain_run,       \* what the chain did inside chain.invoke: validation, execution
    eq_pc,           \* execute_query, per coroutine: "idle", "connect", "run", "data", "exit", "returned", "raised"
    driver,          \* what get_driver() returned to each coroutine: the local `driver`
    records,         \* the rows result.data() gave, in store order
    eq_return,       \* the list execute_query returned
    eq_warned,       \* whether execute_query logged its warning
    eq_error,        \* the exception execute_query raised ("none": none)
    pdf_pc,          \* IngestionService.process_pdf: where the call stands
    metadata,        \* metadata.get("doc_type") of the call (<<>> when absent or empty)
    doc_type,        \* the local `doc_type` of process_pdf
    document_type,   \* result["document_type"]: the processor the document went to
    pdf_raised,      \* the step at which process_pdf raised, "none" when it did not
    meta_client,     \* metadata.get("client_name") of the call (<<>> when absent)
    meta_depts,      \* metadata.get("departments", []) of the call
    extraction,      \* response.content of the extraction model
    extracted,       \* contract_data / policy_data of the processor
    pdf_result,      \* the dict process_pdf returned
    node_id,         \* contract_id / policy_id of the running processor, 0 before it is drawn
    dbNodes,         \* the Contract and Policy nodes of the store
    dbLinks,         \* the FOR_CLIENT and APPLIES_TO relationships of the store
    refused,         \* the questions the endpoints answered 422 to
    gqs_pc,          \* get_qa_service(): where each caller stands
    instances,       \* how many QAService objects get_qa_service() constructed
    global_id,       \* which of them _global_qa_service names: the caller that made it ("none": None)
    got,             \* the object get_qa_service() returned to each caller ("none": none yet)
    _graph,          \* Neo4jService._graph: "None" or the graph object
    _driver,         \* AsyncNeo4jService._driver: "None" or the driver
    conn_pc,         \* how the last Neo4jService.connect / get_graph call ended
    close_pc,        \* AsyncNeo4jService.close(): "idle", or "closing" at its await
    connects,        \* how many connections each of the two services tried to open
    task_state,      \* the Celery state of each task ("none": not submitted)
    task_args,       \* the arguments of each task that waits in the queue
    task_runner,     \* the worker call that runs each task ("none": no call does)
    task_reply       \* what GET /query/result/{task_id} last answered for each task

store == <<dbSchema, dbDocs, dbEmbedded, dbIndex, dbEmployeeIndex>>
shared == <<graph_schema, _chain, _global_qa_service, warm>>
call == <<pc, op, entry, svc, question, include_cypher, start_time>>
locals == <<built, chain, docs, vec_raised, chain_context, structured_data, cypher_query, synth_prompt, synth_status, invoked_at, chain_run>>
outcome == <<response, error>>
\* The state outside the calls on the QA service.
exec == <<eq_pc, driver, records, eq_return, eq_warned, eq_error>>
ingest == <<pdf_pc, metadata, doc_type, document_type, pdf_raised, meta_client, meta_depts, extraction, extracted, pdf_result, node_id>>
kb == <<dbNodes, dbLinks>>
singleton == <<gqs_pc, instances, global_id, got>>
conn == <<_graph, _driver, conn_pc, close_pc, connects>>
tasks == <<task_state, task_args, task_runner, task_reply>>
outside == <<clock, exec, ingest, kb, refused, singleton, conn, tasks>>
\* What a call of execute_query, a call of process_pdf and the passing of
\* time leave alone.
besideExecute == <<store, shared, call, locals, outcome, clock, ingest, kb, refused, singleton, tasks, _graph, conn_pc, close_pc>>
besideExec == <<store, shared, call, locals, outcome, clock, ingest, kb, refused, singleton, conn, tasks>>
besideIngest == <<shared, call, locals, outcome, clock, exec, refused, singleton, conn, tasks>>
besideRefused == <<store, shared, call, locals, outcome, clock, exec, ingest, kb, singleton, conn, tasks>>
besideSingleton == <<store, warm, call, locals, outcome, clock, exec, ingest, kb, refused, conn, tasks>>
besideConn == <<store, shared, call, locals, outcome, clock, exec, ingest, kb, refused, singleton, tasks>>
besideTasks == <<store, shared, call, locals, outcome, clock, exec, ingest, kb, refused, singleton, conn>>
besideClock == <<store, shared, call, locals, outcome, exec, ingest, kb, refused, singleton, conn, tasks>>
vars == <<store, shared, call, locals, outcome, outside>>

\* ------------------------------------------------------------ pure helpers
\* "\n".join([f"- {d.page_content}" for d in docs]); a document's page_content
\* is the token that names it.
RECURSIVE BulletLines(_)
BulletLines(ds) ==
    IF ds = <<>> THEN <<>>
    ELSE IF Len(ds) = 1 THEN <<"- ", ds[1]>>
    ELSE <<"- ", ds[1], "\n">> \o BulletLines(Tail(ds))

\* chain_context, with its fallback for an empty join
ChainContext(ds) ==
    IF BulletLines(ds) = <<>> THEN <<"No additional context available.">> ELSE BulletLines(ds)

\* formatted_docs of _synthesize_answer, with its fallback for an empty join
FormattedDocs(ds) ==
    IF BulletLines(ds) = <<>> THEN <<"No relevant document context found.">> ELSE BulletLines(ds)

\* HYBRID_SYNTHESIS_PROMPT.format(question, structured_data, context_docs)
SynthesisPrompt(q, sd, ds) == [question |-> q, structured_data |-> sd, context_docs |-> FormattedDocs(ds)]

\* The lists store.similarity_search(query, k=k) over the nodes in S can
\* return: similarity_search hands back what the library gave, it neither
\* cuts the list to k nor removes a passage that comes twice.
Rankings(S, k) == UNION {[1..n -> S] : n \in 0..MaxPassages}

\* [d.page_content for d in docs] if docs else []
ContextUsed(ds) == IF ds # <<>> THEN [i \in DOMAIN ds |-> ds[i]] ELSE <<>>

\* The model named in the metadata: the one of the configured provider.
ResponseModel == IF llm_provider = "openai" THEN openai_model ELSE groq_model

\* int(x) for the quotient x = n / d, d > 0: the fraction is dropped, toward
\* zero for a negative quotient too.
IntOf(n, d) == IF n >= 0 THEN n \div d ELSE -((-n) \div d)

\* (mutant of ExecutionTimeMs: the difference left in seconds)
ExecutionTimeSeconds(start, end) == IntOf(end - start, TicksPerSecond)

\* execution_time_ms = int((end_time - start_time) * 1000)
ExecutionTimeMs(start, end) == IntOf((end - start) * 1000, TicksPerSecond)

\* The dict query() builds at lines 358-372.
BaseResponse(q, answer, ds, sd, ms) ==
    [question |-> q,
     answer |-> answer,
     metadata |-> [provider |-> llm_provider,
                   model |-> ResponseModel,
                   context_used |-> ContextUsed(ds),
                   execution_time_ms |-> ms,
                   structured_source |-> sd]]

\* (mutant of WithCypher: the flag is not consulted)
WithCypherAlways(resp, inc, cq) ==
    IF cq # <<>> THEN resp @@ [cypher_query |-> cq] ELSE resp

\* if include_cypher and cypher_query: response["cypher_query"] = cypher_query
WithCypher(resp, inc, cq) ==
    IF inc /\ cq # <<>> THEN resp @@ [cypher_query |-> cq] ELSE resp

\* raise QueryExecutionError(..., details={"question": question}) from e
QueryExecutionError(q, cause) ==
    [type |-> "QueryExecutionError", details |-> [question |-> q], cause |-> cause]

\* The Cypher text a chain bound to snapshot v generates for question q with
\* the hints ctx: CYPHER_GENERATION_PROMPT is filled with {schema}, {context}
\* and {question}, and the model (temperature 0) answers as a function of
\* that prompt.
GeneratedCypher(q, v, ctx) == <<"MATCH", q, SchemaToken(v)>> \o ctx

\* What chain.invoke can return when the generated query passed the chain's
\* validation (validate_cypher=True) and was executed: the "result" key may be
\* absent, and may be an empty text; intermediate_steps may be absent or hold
\* the generated query.
GraphResultsValid(q, v, ctx) ==
    {[valid |-> TRUE, has_result |-> hr, result |-> r, steps |-> st] :
        hr \in BOOLEAN, r \in {<<>>, <<"rows">>},
        st \in {<<>>, <<[query |-> GeneratedCypher(q, v, ctx)]>>}} \ {[valid |-> TRUE, has_result |-> FALSE, result |-> <<"rows">>, steps |-> st] :
        st \in {<<>>, <<[query |-> GeneratedCypher(q, v, ctx)]>>}}

\* What chain.invoke returns when the generated query failed the validation:
\* the chain is left with an empty query text, executes nothing, and answers
\* from an empty row list; query() receives a dict like any other.
GraphResultsInvalid ==
    {[valid |-> FALSE, has_result |-> TRUE, result |-> <<"I don't know the answer.">>, steps |-> <<[query |-> <<>>]>>]}

GraphResults(q, v, ctx) == GraphResultsValid(q, v, ctx) \cup GraphResultsInvalid

\* What the chain did to produce gr: whether the generated query passed the
\* validation, and the text it ran against the store (none when it failed).
ChainRun(gr, q, v, ctx) ==
    [validation |-> IF gr.valid THEN "passed" ELSE "failed",
     executed |-> IF gr.valid THEN GeneratedCypher(q, v, ctx) ELSE <<>>]

\* The ways chain.invoke raises: the translation of the question failed (the
\* model call raised or gave no usable query), or the store failed to run it.
ChainFailures == {"TranslationFailed", "StoreFailed"}
ChainOutcomes == {"ok"} \cup ChainFailures

\* graph_result.get("result", "No data found in graph.")
StructuredData(gr) == IF gr.has_result THEN gr.result ELSE <<"No data found in graph.">>

\* cypher_query as lines 340-347 extract it
CypherOf(gr) == IF gr.steps # <<>> THEN gr.steps[1].query ELSE <<>>

\* What llm.invoke(prompt).content can be.
LlmContents == {<<>>, <<"answer">>}

\* f"Error synthesizing answer: {e}. Structured Data: {structured_data}"
SynthesisErrorAnswer(e, sd) == <<"Error synthesizing answer: ", e, ". Structured Data: ">> \o sd

\* ------------------------------------------------------------- initial state
\* A store loaded with its documents; the vector index may or may not have
\* been built by the maintenance script. No call is running and no chain is
\* cached. `connected` are the processes whose Neo4jGraph object exists (it
\* read the schema when it connected).
InitWith(connected) ==
    /\ dbSchema = 0
    /\ dbDocs = DocIds
    /\ dbIndex \in BOOLEAN
    /\ dbEmbedded = IF dbIndex THEN dbDocs ELSE {}
    /\ dbEmployeeIndex = dbIndex
    /\ graph_schema = [p \in Procs |-> IF p \in connected THEN 0 ELSE NoGraph]
    /\ _chain = [s \in Services |-> NoneChain]
    /\ _global_qa_service = FALSE
    /\ warm = [p \in Procs |-> FALSE]
    /\ pc = [t \in Callers |-> "idle"]
    /\ op = [t \in Callers |-> "none"]
    /\ entry = [t \in Callers |-> "none"]
    /\ svc = [t \in Callers |-> GlobalService]
    /\ question = [t \in Callers |-> ""]
    /\ include_cypher = [t \in Callers |-> FALSE]
    /\ built = [t \in Callers |-> NoneChain]
    /\ chain = [t \in Callers |-> NoneChain]
    /\ docs = [t \in Callers |-> <<>>]
    /\ vec_raised = [t \in Callers |-> FALSE]
    /\ chain_context = [t \in Callers |-> <<>>]
    /\ structured_data = [t \in Callers |-> <<>>]
    /\ cypher_query = [t \in Callers |-> <<>>]
    /\ synth_prompt = [t \in Callers |-> NoPrompt]
    /\ synth_status = [t \in Callers |-> "none"]
    /\ response = [t \in Callers |-> NoResponse]
    /\ error = [t \in Callers |-> NoError]
    /\ clock = 0
    /\ start_time = [t \in Callers |-> 0]
    /\ invoked_at = [t \in Callers |-> 0]
    /\ chain_run = [t \in Callers |-> NoRun]
    /\ eq_pc = [c \in Coroutines |-> "idle"]
    /\ driver = [c \in Coroutines |-> "None"]
    /\ records = [c \in Coroutines |-> <<>>]
    /\ eq_return = [c \in Coroutines |-> <<>>]
    /\ eq_warned = [c \in Coroutines |-> FALSE]
    /\ eq_error = [c \in Coroutines |-> "none"]
    /\ pdf_pc = "idle"
    /\ metadata = <<>>
    /\ doc_type = <<>>
    /\ document_type = "none"
    /\ pdf_raised = "none"
    /\ meta_client = <<>>
    /\ meta_depts = <<>>
    /\ extraction = NoContent
    /\ extracted = NoData
    /\ pdf_result = NoResult
    /\ node_id = 0
    /\ dbNodes = {}
    /\ dbLinks = {}
    /\ refused = {}
    /\ gqs_pc = [t \in Callers |-> "idle"]
    /\ instances = 0
    /\ global_id = "none"
    /\ got = [t \in Callers |-> "none"]
    /\ _graph = "None"
    /\ _driver = "None"
    /\ conn_pc = "idle"
    /\ close_pc = "idle"
    /\ connects = [h \in Handles |-> 0]
    /\ task_state = [k \in TaskIds |-> "none"]
    /\ task_args = [k \in TaskIds |-> NoArgs]
    /\ task_runner = [k \in TaskIds |-> "none"]
    /\ task_reply = [k \in TaskIds |-> NoReply]

\* One QAService, constructed over a connected graph, shared by the callers.
Init == InitWith({"api"})

\* The two processes when they start to serve. The API process connected
\* while it was imported (the ingestion service of the admin routes is
\* constructed at import and calls neo4j_service.get_graph(); a store that
\* cannot be reached then stops the import, and the process never serves).
\* The worker connects when it runs its first task.
InitApi == InitWith({"api"})

\* The process a caller's call runs in: tasks run in the worker.
ProcOf(t) == IF entry[t] = "task" THEN "worker" ELSE "api"

\* connect() of either service, from a handle that is None: the handle is
\* assigned as soon as the constructor returned, the test query runs on it,
\* and any exception leaves connect() as Neo4jConnectionError.
HandleAfterConnect(ctor_ok, test_ok) == IF ctor_ok THEN "open" ELSE "None"
ConnectRaises(ctor_ok, test_ok) == ~ctor_ok \/ ~test_ok

\* raise Neo4jConnectionError(f"Failed to connect to Neo4j: {e}", details={"uri": ...})
Neo4jConnectionError ==
    [type |-> "Neo4jConnectionError", details |-> [uri |-> "neo4j_uri"], cause |-> "connect"]

\* neo4j_service.get_graph() in process p: the graph the process holds, else
\* connect(), which assigns self._graph as soon as Neo4jGraph(...) returned
\* (the constructor reads the schema of the store) and then runs the test
\* query. This is the snapshot the process holds afterwards: none when the
\* constructor raised, the new graph also when the test query raised.
GetGraph(p, ctor_ok) ==
    IF graph_schema[p] = NoGraph /\ HandleAfterConnect(ctor_ok, TRUE) = "open"
    THEN [graph_schema EXCEPT ![p] = dbSchema]
    ELSE graph_schema

\* Whether that get_graph() raises Neo4jConnectionError.
GetGraphRaises(p, ctor_ok, test_ok) ==
    graph_schema[p] = NoGraph /\ ConnectRaises(ctor_ok, test_ok)

\* ------------------------------------------------------- entering a call
\* The frame of a call that starts: its arguments, and fresh locals.
Enter(t, how, what, s, q, inc, first) ==
    /\ pc[t] = "idle"
    /\ pc' = [pc EXCEPT ![t] = first]
    /\ op' = [op EXCEPT ![t] = what]
    /\ entry' = [entry EXCEPT ![t] = how]
    /\ svc' = [svc EXCEPT ![t] = s]
    /\ question' = [question EXCEPT ![t] = q]
    /\ include_cypher' = [include_cypher EXCEPT ![t] = inc]
    /\ start_time' = [start_time EXCEPT ![t] = IF what = "query" THEN clock ELSE 0]
    /\ UNCHANGED <<locals, outcome>>

\* qa_service.query(question, include_cypher) on the service the callers share
\* (one QAService used by several callers, as the CLI loop uses one).
Query(t, q, inc) ==
    /\ Enter(t, "service", "query", GlobalService, q, inc, "gc_check")
    /\ UNCHANGED <<store, shared, outside>>

\* qa_service.refresh_schema() on the shared service
RefreshSchema(t) ==
    /\ Enter(t, "service", "refresh", GlobalService, "", FALSE, "rf_graph")
    /\ UNCHANGED <<store, shared, outside>>

\* POST /query: process_query fetches the graph (a failure to connect is
\* answered 500), constructs QAService(graph), whose _chain is None, and
\* calls query() on it.
process_query(t, q, inc) ==
    \E ctor_ok, test_ok \in BOOLEAN :
        /\ graph_schema' = GetGraph("api", ctor_ok)
        /\ IF GetGraphRaises("api", ctor_ok, test_ok)
           THEN /\ pc[t] = "idle"
                /\ UNCHANGED <<_chain, call, locals, outcome>>
           ELSE /\ Enter(t, "endpoint", "query", t, q, inc, "gc_check")
                /\ _chain' = [_chain EXCEPT ![t] = NoneChain]
        /\ UNCHANGED <<store, _global_qa_service, warm, outside>>

\* A worker takes the queued message of task k and calls process_query_task
\* with the arguments the message carried: task_track_started makes the
\* state of the task STARTED before the body runs.
process_query_task(t, k) ==
    /\ task_state[k] = "PENDING"
    /\ \A j \in TaskIds : task_runner[j] # t
    /\ task_state' = [task_state EXCEPT ![k] = "STARTED"]
    /\ task_runner' = [task_runner EXCEPT ![k] = t]
    /\ task_args' = [task_args EXCEPT ![k] = NoArgs]
    /\ Enter(t, "task", "task", t, task_args[k].question, task_args[k].include_cypher, "task_progress")
    /\ UNCHANGED <<store, shared, task_reply>>
    /\ UNCHANGED <<clock, exec, ingest, kb, refused, singleton, conn>>

\* The task that call t runs
TaskOf(t) == CHOOSE k \in TaskIds : task_runner[k] = t

\* self.update_state(state="PROGRESS", meta={"status": "Connecting to database..."})
TaskProgress(t) ==
    /\ pc[t] = "task_progress"
    /\ task_state' = [task_state EXCEPT ![TaskOf(t)] = "PROGRESS"]
    /\ pc' = [pc EXCEPT ![t] = "task_graph"]
    /\ UNCHANGED <<task_args, task_runner, task_reply>>
    /\ UNCHANGED <<store, shared, op, entry, svc, question, include_cypher, start_time, locals, outcome>>
    /\ UNCHANGED <<clock, exec, ingest, kb, refused, singleton, conn>>

\* graph = neo4j_service.get_graph(), inside the try of the task: the worker
\* connects here when it holds no graph, and a Neo4jConnectionError takes
\* the task to its except branch.
TaskGetGraph(t, ctor_ok, test_ok) ==
    /\ pc[t] = "task_graph"
    /\ graph_schema' = GetGraph("worker", ctor_ok)
    /\ IF GetGraphRaises("worker", ctor_ok, test_ok)
       THEN /\ pc' = [pc EXCEPT ![t] = "raised"]
            /\ error' = [error EXCEPT ![t] = Neo4jConnectionError]
            /\ UNCHANGED response
       ELSE /\ pc' = [pc EXCEPT ![t] = "task_query"]
            /\ UNCHANGED outcome
    /\ UNCHANGED <<store, _chain, _global_qa_service, warm>>
    /\ UNCHANGED <<op, entry, svc, question, include_cypher, start_time, locals, outside>>

\* The second update_state(state="PROGRESS", ...), qa_service = QAService(graph),
\* whose _chain is None, and the call of qa_service.query(question,
\* include_cypher), which reads start_time.
TaskQuery(t) ==
    /\ pc[t] = "task_query"
    /\ pc' = [pc EXCEPT ![t] = "gc_check"]
    /\ op' = [op EXCEPT ![t] = "query"]
    /\ start_time' = [start_time EXCEPT ![t] = clock]
    /\ _chain' = [_chain EXCEPT ![t] = NoneChain]
    /\ UNCHANGED <<store, graph_schema, _global_qa_service, warm>>
    /\ UNCHANGED <<entry, svc, question, include_cypher, locals, outcome, outside>>

\* The steps of the task before its query() and after it.
TaskSteps(t) ==
    \/ TaskProgress(t)
    \/ \E ctor_ok, test_ok \in BOOLEAN : TaskGetGraph(t, ctor_ok, test_ok)
    \/ TaskQuery(t)

\* The end of the task: `return result` after query() returned leaves the
\* task in state SUCCESS; the except branch sets FAILURE and raises again.
TaskFinish(k) ==
    /\ task_state[k] = "PROGRESS"
    /\ task_runner[k] \in Callers
    /\ pc[task_runner[k]] \in {"returned", "raised"}
    /\ task_state' = [task_state EXCEPT ![k] =
                          IF pc[task_runner[k]] = "returned" THEN "SUCCESS" ELSE "FAILURE"]
    /\ task_runner' = [task_runner EXCEPT ![k] = "none"]
    /\ UNCHANGED <<task_args, task_reply>>
    /\ UNCHANGED besideTasks

\* POST /admin/refresh-schema: get_qa_service() creates the module-level
\* service over neo4j_service.get_graph() when there is none, then
\* refresh_schema() runs on it.
refresh_schema(t) ==
    \E ctor_ok, test_ok \in BOOLEAN :
        /\ graph_schema' = IF _global_qa_service THEN graph_schema ELSE GetGraph("api", ctor_ok)
        /\ IF ~_global_qa_service /\ GetGraphRaises("api", ctor_ok, test_ok)
           THEN /\ pc[t] = "idle"
                /\ UNCHANGED <<_global_qa_service, _chain, call, locals, outcome>>
           ELSE /\ Enter(t, "admin", "refresh", GlobalService, "", FALSE, "rf_graph")
                /\ _global_qa_service' = TRUE
                /\ _chain' = IF _global_qa_service THEN _chain
                             ELSE [_chain EXCEPT ![GlobalService] = NoneChain]
        /\ UNCHANGED <<store, warm, outside>>

\* ------------------------------------------------------ QAService._get_chain
\* The call raises out of query(): the outer except turns every exception
\* into QueryExecutionError with the question in its details.
RaiseFromQuery(t, cause) ==
    /\ pc' = [pc EXCEPT ![t] = "raised"]
    /\ error' = [error EXCEPT ![t] = QueryExecutionError(question[t], cause)]
    /\ UNCHANGED response

\* (mutant of CacheHit: the cache is never consulted)
CacheHitNever(s) == FALSE

\* Whether _get_chain takes the cached chain: `if self._chain is not None`.
CacheHit(s) == _chain[s] # NoneChain

\* `if self._chain is not None:` and, on a miss, `llm = self._get_llm()`,
\* which raises LLMProviderError when the provider cannot be initialised.
GetChainCheck(t, llm_ok) ==
    /\ pc[t] = "gc_check"
    /\ IF CacheHit(svc[t])
       THEN /\ pc' = [pc EXCEPT ![t] = "gc_ret"]
            /\ UNCHANGED outcome
       ELSE IF llm_ok
       THEN /\ pc' = [pc EXCEPT ![t] = "gc_build"]
            /\ UNCHANGED outcome
       ELSE RaiseFromQuery(t, "LLMProviderError")
    /\ UNCHANGED <<store, shared, op, entry, svc, question, include_cypher, start_time, locals, outside>>

\* The snapshot a chain built now in process p is bound to:
\* from_llm(graph=self.graph) reads the schema the graph object holds.
BoundSchema(p) == graph_schema[p]

\* GraphCypherQAChain.from_llm(llm=llm, graph=self.graph, ...): the right-hand
\* side of the assignment, evaluated before the attribute is stored.
GetChainBuild(t) ==
    /\ pc[t] = "gc_build"
    /\ built' = [built EXCEPT ![t] = ChainOf(BoundSchema(ProcOf(t)))]
    /\ warm' = [warm EXCEPT ![ProcOf(t)] = TRUE]
    /\ pc' = [pc EXCEPT ![t] = "gc_store"]
    /\ UNCHANGED <<store, graph_schema, _chain, _global_qa_service, op, entry, svc, question, include_cypher, start_time>>
    /\ UNCHANGED <<chain, docs, vec_raised, chain_context, structured_data, cypher_query, synth_prompt, synth_status, invoked_at, chain_run, outcome, outside>>

\* self._chain = <the chain built>
GetChainStore(t) ==
    /\ pc[t] = "gc_store"
    /\ _chain' = [_chain EXCEPT ![svc[t]] = built[t]]
    /\ pc' = [pc EXCEPT ![t] = "gc_ret"]
    /\ UNCHANGED <<store, graph_schema, _global_qa_service, warm, op, entry, svc, question, include_cypher, start_time, locals, outcome, outside>>

\* `return self._chain`, and `chain = self._get_chain()` in query()
GetChainReturn(t) ==
    /\ pc[t] = "gc_ret"
    /\ chain' = [chain EXCEPT ![t] = _chain[svc[t]]]
    /\ pc' = [pc EXCEPT ![t] = "semantic"]
    /\ UNCHANGED <<store, shared, op, entry, svc, question, include_cypher, start_time, outcome, outside>>
    /\ UNCHANGED <<built, docs, vec_raised, chain_context, structured_data, cypher_query, synth_prompt, synth_status, invoked_at, chain_run>>

\* ------------------------------------------------- VectorService (retrieval)
\* Neo4jVector.from_existing_graph(...), as get_vector_store calls it on every
\* search and create_index_from_graph calls it to build the index: it creates
\* the index when it is missing and embeds every node that has no embedding.
FromExistingGraph ==
    /\ dbIndex' = TRUE
    /\ dbEmbedded' = dbDocs
    /\ UNCHANGED <<dbSchema, dbDocs, dbEmployeeIndex>>

\* vector_service.get_vector_store() called on its own: from_existing_graph
\* for the Document label, or VectorError before the store was reached.
get_vector_store(ok) ==
    /\ IF ok THEN FromExistingGraph ELSE UNCHANGED store
    /\ UNCHANGED <<shared, call, locals, outcome, outside>>

\* vector_service.create_index_from_graph(), the maintenance call of
\* scripts/create_vector_index.py: from_existing_graph for the Employee
\* label, then for the Document label; the first that raises ends the call
\* with VectorError, and what was built before it stays.
\*   "none"      the embeddings or the first call raised
\*   "employee"  the first call was done, the second raised
\*   "both"      both were done
IndexOutcomes == {"none", "employee", "both"}
create_index_from_graph(out) ==
    /\ dbEmployeeIndex' = (dbEmployeeIndex \/ out # "none")
    /\ IF out = "both"
       THEN dbIndex' = TRUE /\ dbEmbedded' = dbDocs
       ELSE UNCHANGED <<dbIndex, dbEmbedded>>
    /\ UNCHANGED <<dbSchema, dbDocs>>
    /\ UNCHANGED <<shared, call, locals, outcome, outside>>

\* The outcomes of vector_service.similarity_search(question, k=3):
\*   "unavailable"   get_vector_store raised before reaching the store
\*   "search_failed" the store was obtained, store.similarity_search raised
\*   "ok"            the ranked passages found
VectorOutcomes == {"unavailable", "search_failed", "ok"}

\* The outcomes of the second call to the store, store.similarity_search
SearchOutcomes == VectorOutcomes \ {"unavailable"}

\* (mutant of DocsAfterSearch: the handler reports the failure as a passage)
DocsAfterSearchAsPassage(out, found) == IF out = "ok" THEN found ELSE <<"Vector search failed">>

\* `docs` after the try/except around similarity_search (lines 320-326).
DocsAfterSearch(out, found) == IF out = "ok" THEN found ELSE <<>>

\* (mutant of RetrievalAborts: the retrieval outside the try, so that its
\* failure reaches the outer handler of query())
RetrievalAbortsUncaught(out) == out # "ok"

\* Whether a failed retrieval leaves query(): `except Exception` at line 324
\* catches it, so it never does.
RetrievalAborts(out) == FALSE

\* The end of step 1 of query() with this outcome of similarity_search: the
\* try/except around it, and the chain_context built from the passages
\* (lines 320-335).
RetrievalEnds(t, out, found) ==
    /\ vec_raised' = [vec_raised EXCEPT ![t] = (out # "ok")]
    /\ IF RetrievalAborts(out)
       THEN /\ RaiseFromQuery(t, "VectorError")
            /\ UNCHANGED <<docs, chain_context>>
       ELSE /\ docs' = [docs EXCEPT ![t] = DocsAfterSearch(out, found)]
            /\ chain_context' = [chain_context EXCEPT ![t] = ChainContext(DocsAfterSearch(out, found))]
            /\ pc' = [pc EXCEPT ![t] = "structured"]
            /\ UNCHANGED outcome
    /\ UNCHANGED <<shared, op, entry, svc, question, include_cypher, start_time>>
    /\ invoked_at' = [invoked_at EXCEPT ![t] = clock]
    /\ UNCHANGED <<built, chain, structured_data, cypher_query, synth_prompt, synth_status, chain_run, outside>>

\* Step 1 of query(), first call to the store: similarity_search calls
\* get_vector_store(), whose from_existing_graph builds the index, or raises
\* VectorError before the store was reached, which ends the retrieval.
SemanticStore(t, ok) ==
    /\ pc[t] = "semantic"
    /\ IF ok
       THEN /\ FromExistingGraph
            /\ pc' = [pc EXCEPT ![t] = "search"]
            /\ UNCHANGED <<shared, op, entry, svc, question, include_cypher, start_time, locals, outcome, outside>>
       ELSE /\ UNCHANGED store
            /\ RetrievalEnds(t, "unavailable", <<>>)

\* Step 1 of query(), second call to the store: store.similarity_search(query,
\* k=k) on the store obtained, its passages or its exception.
Semantic(t, out, found) ==
    /\ pc[t] = "search"
    /\ UNCHANGED store
    /\ RetrievalEnds(t, out, found)

\* ------------------------------------------------ the structured retrieval
\* Step 2 of query(): chain.invoke({"query": question, "context": chain_context})
\* and the extraction of structured_data and cypher_query (lines 337-347).
\* The chain generates, validates and executes the Cypher query; an exception
\* raised there leaves query() through the outer handler. A `chain` that is
\* None raises AttributeError.
Structured(t, out, gr) ==
    /\ pc[t] = "structured"
    /\ IF chain[t] = NoneChain
       THEN /\ RaiseFromQuery(t, "AttributeError")
            /\ UNCHANGED <<structured_data, cypher_query, chain_run>>
       ELSE IF out # "ok"
       THEN /\ RaiseFromQuery(t, out)
            /\ UNCHANGED <<structured_data, cypher_query, chain_run>>
       ELSE /\ gr \in GraphResults(question[t], chain[t].schema, chain_context[t])
            /\ structured_data' = [structured_data EXCEPT ![t] = StructuredData(gr)]
            /\ cypher_query' = [cypher_query EXCEPT ![t] = CypherOf(gr)]
            /\ chain_run' = [chain_run EXCEPT ![t] = ChainRun(gr, question[t], chain[t].schema, chain_context[t])]
            /\ pc' = [pc EXCEPT ![t] = "synth"]
            /\ UNCHANGED outcome
    /\ UNCHANGED <<store, shared, op, entry, svc, question, include_cypher, start_time>>
    /\ UNCHANGED <<built, chain, docs, vec_raised, chain_context, synth_prompt, synth_status, invoked_at, outside>>

\* --------------------------------------------- QAService._synthesize_answer
\* The outcomes of the synthesis step:
\*   "llm_init_error"  _get_llm() raised
\*   "invoke_error"    llm.invoke(prompt) raised
\*   "ok"              the model answered
SynthesisOutcomes == {"llm_init_error", "invoke_error", "ok"}

\* (mutant of SynthesisAborts: _get_llm() called before the try)
SynthesisAbortsOnInit(out) == out = "llm_init_error"

\* Whether a failed synthesis leaves _synthesize_answer as an exception: the
\* whole body is inside try/except Exception (lines 279-298), so it never does.
SynthesisAborts(out) == FALSE

\* What _synthesize_answer returns (lines 293-298).
SynthesizeAnswer(out, content, sd) ==
    IF out = "ok" THEN content ELSE SynthesisErrorAnswer(out, sd)

\* The prompt the model was given, when the step got that far.
PromptGiven(out, q, sd, ds) ==
    IF out = "llm_init_error" THEN NoPrompt ELSE SynthesisPrompt(q, sd, ds)

\* Step 3 of query(): synthesis, then end_time = time.time() and the response
\* dict (lines 353-379).
Synthesize(t, out, content) ==
    /\ pc[t] = "synth"
    /\ synth_prompt' = [synth_prompt EXCEPT ![t] = PromptGiven(out, question[t], structured_data[t], docs[t])]
    /\ synth_status' = [synth_status EXCEPT ![t] = out]
    /\ IF out # "ok" /\ SynthesisAborts(out)
       THEN RaiseFromQuery(t, out)
       ELSE /\ response' = [response EXCEPT ![t] =
                    WithCypher(BaseResponse(question[t], SynthesizeAnswer(out, content, structured_data[t]), docs[t], structured_data[t],
                                            ExecutionTimeMs(start_time[t], clock)),
                               include_cypher[t], cypher_query[t])]
            /\ pc' = [pc EXCEPT ![t] = "returned"]
            /\ UNCHANGED error
    /\ UNCHANGED <<store, shared, op, entry, svc, question, include_cypher, start_time>>
    /\ UNCHANGED <<built, chain, docs, vec_raised, chain_context, structured_data, cypher_query, invoked_at, chain_run, outside>>

\* -------------------------------------------------- QAService.refresh_schema
\* self.graph.refresh_schema(): the graph object re-reads the vocabulary of the
\* store; when the introspection fails the exception leaves refresh_schema().
\* A refresh_schema that invalidated the chain before it refreshed the graph.
CacheDroppedFirst(s) == [_chain EXCEPT ![s] = NoneChain]

\* self._chain when self.graph.refresh_schema() is over, done or raised: the
\* invalidation is the statement after it.
CacheAfterRefreshGraph(s) == _chain

RefreshGraph(t, ok) ==
    /\ pc[t] = "rf_graph"
    /\ IF ok
       THEN /\ graph_schema' = [graph_schema EXCEPT ![ProcOf(t)] = dbSchema]
            /\ pc' = [pc EXCEPT ![t] = "rf_drop"]
            /\ UNCHANGED error
       ELSE /\ pc' = [pc EXCEPT ![t] = "raised"]
            /\ error' = [error EXCEPT ![t] = [type |-> "Exception", details |-> [question |-> ""], cause |-> "introspection"]]
            /\ UNCHANGED graph_schema
    /\ _chain' = CacheAfterRefreshGraph(svc[t])
    /\ UNCHANGED <<store, _global_qa_service, warm, op, entry, svc, question, include_cypher, start_time, locals, response, outside>>

\* self._chain = None
RefreshDrop(t) ==
    /\ pc[t] = "rf_drop"
    /\ _chain' = [_chain EXCEPT ![svc[t]] = NoneChain]
    /\ warm' = [warm EXCEPT ![ProcOf(t)] = FALSE]
    /\ pc' = [pc EXCEPT ![t] = "returned"]
    /\ UNCHANGED <<store, graph_schema, _global_qa_service, op, entry, svc, question, include_cypher, start_time, locals, outcome, outside>>

\* ------------------------------------------------------------ leaving a call
\* The call is over: its frame is gone, the caller is free for the next call.
Return(t) ==
    /\ pc[t] \in {"returned", "raised"}
    /\ \A k \in TaskIds : task_runner[k] # t
    /\ pc' = [pc EXCEPT ![t] = "idle"]
    /\ op' = [op EXCEPT ![t] = "none"]
    /\ entry' = [entry EXCEPT ![t] = "none"]
    /\ svc' = [svc EXCEPT ![t] = GlobalService]
    /\ question' = [question EXCEPT ![t] = ""]
    /\ include_cypher' = [include_cypher EXCEPT ![t] = FALSE]
    /\ built' = [built EXCEPT ![t] = NoneChain]
    /\ chain' = [chain EXCEPT ![t] = NoneChain]
    /\ docs' = [docs EXCEPT ![t] = <<>>]
    /\ vec_raised' = [vec_raised EXCEPT ![t] = FALSE]
    /\ chain_context' = [chain_context EXCEPT ![t] = <<>>]
    /\ structured_data' = [structured_data EXCEPT ![t] = <<>>]
    /\ cypher_query' = [cypher_query EXCEPT ![t] = <<>>]
    /\ synth_prompt' = [synth_prompt EXCEPT ![t] = NoPrompt]
    /\ synth_status' = [synth_status EXCEPT ![t] = "none"]
    /\ response' = [response EXCEPT ![t] = NoResponse]
    /\ error' = [error EXCEPT ![t] = NoError]
    /\ start_time' = [start_time EXCEPT ![t] = 0]
    /\ invoked_at' = [invoked_at EXCEPT ![t] = 0]
    /\ chain_run' = [chain_run EXCEPT ![t] = NoRun]
    /\ UNCHANGED <<store, shared, outside>>

\* ------------------------------------------------------- the store changing
\* A general-path ingestion: add_graph_documents writes nodes and edges with
\* labels the extraction chose, so the vocabulary of the store changes.
IngestGeneral ==
    /\ dbSchema < MaxSchema
    /\ dbSchema' = dbSchema + 1
    /\ UNCHANGED <<dbDocs, dbEmbedded, dbIndex, dbEmployeeIndex, shared, call, locals, outcome, outside>>

\* ------------------------------------------- IngestionService.process_pdf
\* Texts of the ingestion path are sequences of tokens too; these are the
\* whitespace tokens.
IsSpace(tok) == tok \in {" ", "\n"}

\* str.strip()
RECURSIVE LStrip(_)
LStrip(txt) == IF txt # <<>> /\ IsSpace(Head(txt)) THEN LStrip(Tail(txt)) ELSE txt
RECURSIVE RStrip(_)
RStrip(txt) == IF txt # <<>> /\ IsSpace(txt[Len(txt)]) THEN RStrip(SubSeq(txt, 1, Len(txt) - 1)) ELSE txt
Strip(txt) == RStrip(LStrip(txt))

\* str.lower(), token by token
LowerToken(tok) ==
    CASE tok = "Contract" -> "contract"
      [] tok = "Policy" -> "policy"
      [] tok = "GENERAL" -> "general"
      [] tok = "Acme" -> "acme"
      [] tok = "Corp" -> "corp"
      [] tok = "Globex" -> "globex"
      [] tok = "Engineering" -> "engineering"
      [] tok = "Sales" -> "sales"
      [] tok = "HR" -> "hr"
      [] tok = "Legal" -> "legal"
      [] OTHER -> tok
Lower(txt) == [i \in DOMAIN txt |-> LowerToken(txt[i])]

\* The values metadata.get("doc_type") may have; <<>> is None or "".
DocTypeHints ==
    {<<>>, <<"contract">>, <<"policy">>, <<"general">>, <<"Contract">>, <<"memo">>, <<" ", "policy">>}

\* The contents the classifying model may answer with.
ClassifierContents ==
    {<<"contract">>, <<"Policy">>, <<" ", "general", "\n">>, <<"Contract", "\n">>,
     <<"contract", " ", "or", " ", "policy">>, <<"memo">>, <<>>}

\* _classify_document: response.content.strip().lower()
ClassifyDocument(content) == Lower(Strip(content))

\* metadata.get("doc_type") or await self._classify_document(documents)
DocType(hint, content) == IF hint # <<>> THEN hint ELSE ClassifyDocument(content)

\* The processor process_pdf routes to (lines 324-329).
RouteOf(dt) ==
    IF dt = <<"contract">> THEN "contract"
    ELSE IF dt = <<"policy">> THEN "policy"
    ELSE "general"

\* The Client and Department nodes of the store, by name.
ClientNodes == {<<"Acme", " ", "Corp">>}
DepartmentNodes == {<<"Engineering">>, <<"Sales", " ", "Engineering">>, <<"HR">>}

\* The client names and department lists a call or an extraction may carry;
\* <<>> is None, "" or [].
ClientNames == {<<>>, <<"acme">>, <<"Globex">>}
DepartmentLists == {<<>>, << <<"engineering">> >>, << <<"hr">>, <<"Legal">> >>}

\* The orders in which the store may return the Department rows of a query.
StoreOrders ==
    {o \in [1..Cardinality(DepartmentNodes) -> DepartmentNodes] :
        \A i, j \in DOMAIN o : i # j => o[i] # o[j]}

\* Cypher: hay CONTAINS needle
Contains(hay, needle) ==
    \E i \in 0..(Len(hay) - Len(needle)) : SubSeq(hay, i + 1, i + Len(needle)) = needle

\* MATCH (n) WHERE toLower(n.name) CONTAINS toLower($name)
NameMatches(nodes, name) == {n \in nodes : Contains(Lower(n), Lower(name))}

\* result[0] of a query whose rows are the nodes of m, in store order
FirstRow(m, order) ==
    order[CHOOSE i \in DOMAIN order : order[i] \in m /\ \A j \in 1..(i - 1) : order[j] \notin m]

\* Python: a or b
Or(a, b) == IF a # <<>> THEN a ELSE b

\* metadata.get("filename", ...): the name of the uploaded file
Filename == <<"file.pdf">>

\* What the extraction model may answer with (response.content): text that
\* is not JSON, JSON that is not an object, or a JSON object with its fields.
ExtractedObject(c, d) ==
    [parses |-> TRUE, kind |-> "object",
     value |-> [title |-> <<"Agreement">>, client_name |-> c, departments |-> d]]
NotAnObject(k) == [parses |-> TRUE, kind |-> k, value |-> NoData]
NotJson == [parses |-> FALSE, kind |-> "text", value |-> NoData]
ContractContents ==
    {NotJson} \cup {NotAnObject(k) : k \in {"array", "string", "null"}}
        \cup {ExtractedObject(c, <<>>) : c \in ClientNames}
PolicyContents ==
    {NotJson} \cup {NotAnObject(k) : k \in {"array", "string", "null"}}
        \cup {ExtractedObject(<<>>, d) : d \in DepartmentLists}

\* Whether the value json.loads returned has a .get method (it is a dict).
HasGet(content) == ~content.parses \/ content.kind = "object"

\* try: contract_data = json.loads(response.content) / except: the defaults
ContractData(content, client) ==
    IF content.parses THEN content.value
    ELSE [title |-> Filename, client_name |-> client, departments |-> <<>>]

\* try: policy_data = json.loads(response.content) / except: the defaults
PolicyData(content, depts) ==
    IF content.parses THEN content.value
    ELSE [title |-> Filename, client_name |-> <<>>, departments |-> depts]

\* linked_depts after the loop over `departments`: result[0] of every link
\* query that returned rows.
RECURSIVE LinkedDepts(_, _)
LinkedDepts(depts, order) ==
    IF depts = <<>> THEN <<>>
    ELSE LET m == NameMatches(DepartmentNodes, Head(depts))
         IN  (IF m # {} THEN <<FirstRow(m, order)>> ELSE <<>>) \o LinkedDepts(Tail(depts), order)

\* The Department nodes the first n link queries of the loop merged a
\* relationship to.
MergedDepts(depts, n) == UNION {NameMatches(DepartmentNodes, depts[i]) : i \in 1..n}

\* The relationships of one type from node id to the named nodes.
LinksTo(id, type, names) == {[from |-> id, type |-> type, to |-> n] : n \in names}

\* process_pdf raising from one of its steps.
PdfRaise(step) ==
    /\ pdf_pc' = "raised"
    /\ pdf_raised' = step
    /\ UNCHANGED <<document_type, pdf_result>>

\* process_pdf(file_path, metadata) up to the end of step 1: the PDF is loaded
\* (PyPDFLoader may raise).
process_pdf(hint, client, depts, ok) ==
    /\ pdf_pc = "idle"
    /\ Cardinality(dbNodes) < MaxNodes
    /\ metadata' = hint
    /\ meta_client' = client
    /\ meta_depts' = depts
    /\ IF ok
       THEN pdf_pc' = "classify" /\ UNCHANGED pdf_raised
       ELSE pdf_pc' = "raised" /\ pdf_raised' = "load"
    /\ UNCHANGED <<doc_type, document_type, extraction, extracted, pdf_result, node_id>>
    /\ UNCHANGED <<store, kb, besideIngest>>

\* Step 2 of process_pdf: the hint when there is one, else the classifier;
\* self.llm.invoke(prompt) may raise, and nothing catches it before the
\* `except Exception: raise e` of process_pdf.
Classify(llm_ok, content) ==
    /\ pdf_pc = "classify"
    /\ IF metadata # <<>> \/ llm_ok
       THEN /\ doc_type' = DocType(metadata, content)
            /\ pdf_pc' = "route"
            /\ UNCHANGED pdf_raised
       ELSE /\ pdf_pc' = "raised"
            /\ pdf_raised' = "classification"
            /\ UNCHANGED doc_type
    /\ UNCHANGED <<metadata, meta_client, meta_depts, document_type, extraction, extracted, pdf_result, node_id>>
    /\ UNCHANGED <<store, kb, besideIngest>>

\* Step 3 of process_pdf for a general document: the transformer extracts
\* and add_graph_documents writes (a failed write raises); the nodes may
\* carry labels the store did not have.
Route(ok, new_labels) ==
    /\ pdf_pc = "route"
    /\ RouteOf(doc_type) = "general"
    /\ IF ok
       THEN /\ pdf_pc' = "returned"
            /\ document_type' = "general"
            /\ pdf_result' = [NoResult EXCEPT !.status = "success", !.document_type = "general"]
            /\ dbSchema' = IF new_labels /\ dbSchema < MaxSchema THEN dbSchema + 1 ELSE dbSchema
            /\ UNCHANGED pdf_raised
       ELSE /\ PdfRaise("write")
            /\ UNCHANGED dbSchema
    /\ UNCHANGED <<metadata, meta_client, meta_depts, doc_type, extraction, extracted, node_id>>
    /\ UNCHANGED <<dbDocs, dbEmbedded, dbIndex, dbEmployeeIndex, kb, besideIngest>>

\* Step 3 of process_pdf for a contract, _process_contract: the extraction
\* model is asked (it may raise), its answer is parsed or replaced by the
\* defaults, contract_id is drawn, the Contract node is created with it, and
\* when a client name is known the link query merges FOR_CLIENT to every
\* Client whose name contains it.
\* Each graph.query is its own transaction and may raise.
ProcessContract(llm_ok, content, create_ok, link_ok) ==
    /\ pdf_pc = "route"
    /\ RouteOf(doc_type) = "contract"
    /\ LET data == ContractData(content, meta_client)
           id == Cardinality(dbNodes) + 1
           node == [label |-> "Contract", id |-> id, title |-> data.title]
           client_name == Or(data.client_name, meta_client)
           matched == NameMatches(ClientNodes, client_name)
       IN  IF ~llm_ok
           THEN PdfRaise("extraction") /\ UNCHANGED <<extraction, extracted, node_id, kb>>
           ELSE IF ~HasGet(content)
           THEN PdfRaise("attribute") /\ extraction' = content /\ extracted' = data /\ node_id' = id /\ UNCHANGED kb
           ELSE IF ~create_ok
           THEN PdfRaise("write") /\ extraction' = content /\ extracted' = data /\ node_id' = id /\ UNCHANGED kb
           ELSE IF client_name # <<>> /\ ~link_ok
           THEN /\ PdfRaise("link")
                /\ extraction' = content
                /\ extracted' = data
                /\ node_id' = id
                /\ dbNodes' = dbNodes \cup {node}
                /\ UNCHANGED dbLinks
           ELSE /\ pdf_pc' = "returned"
                /\ extraction' = content
                /\ extracted' = data
                /\ node_id' = id
                /\ dbNodes' = dbNodes \cup {node}
                /\ dbLinks' = dbLinks \cup
                      (IF client_name # <<>> THEN LinksTo(id, "FOR_CLIENT", matched) ELSE {})
                /\ document_type' = "contract"
                /\ pdf_result' = [status |-> "success", document_type |-> "contract",
                                  linked_client |-> client_name, linked_departments |-> <<>>]
                /\ UNCHANGED pdf_raised
    /\ UNCHANGED <<metadata, meta_client, meta_depts, doc_type>>
    /\ UNCHANGED <<store, besideIngest>>

\* Step 3 of process_pdf for a policy, _process_policy: as for a contract,
\* then one link query per department name, which merges APPLIES_TO to every
\* Department whose name contains it and returns one row per merge; the
\* fail-th link query raises (0: none does).
ProcessPolicy(llm_ok, content, create_ok, fail, order) ==
    /\ pdf_pc = "route"
    /\ RouteOf(doc_type) = "policy"
    /\ LET data == PolicyData(content, meta_depts)
           id == Cardinality(dbNodes) + 1
           node == [label |-> "Policy", id |-> id, title |-> data.title]
           departments == Or(data.departments, meta_depts)
       IN  IF ~llm_ok
           THEN PdfRaise("extraction") /\ UNCHANGED <<extraction, extracted, node_id, kb>>
           ELSE IF ~HasGet(content)
           THEN PdfRaise("attribute") /\ extraction' = content /\ extracted' = data /\ node_id' = id /\ UNCHANGED kb
           ELSE IF ~create_ok
           THEN PdfRaise("write") /\ extraction' = content /\ extracted' = data /\ node_id' = id /\ UNCHANGED kb
           ELSE IF fail \in 1..Len(departments)
           THEN /\ PdfRaise("link")
                /\ extraction' = content
                /\ extracted' = data
                /\ node_id' = id
                /\ dbNodes' = dbNodes \cup {node}
                /\ dbLinks' = dbLinks \cup LinksTo(id, "APPLIES_TO", MergedDepts(departments, fail - 1))
           ELSE /\ pdf_pc' = "returned"
                /\ extraction' = content
                /\ extracted' = data
                /\ node_id' = id
                /\ dbNodes' = dbNodes \cup {node}
                /\ dbLinks' = dbLinks \cup
                      LinksTo(id, "APPLIES_TO", MergedDepts(departments, Len(departments)))
                /\ document_type' = "policy"
                /\ pdf_result' = [status |-> "success", document_type |-> "policy",
                                  linked_client |-> <<>>,
                                  linked_departments |-> LinkedDepts(departments, order)]
                /\ UNCHANGED pdf_raised
    /\ UNCHANGED <<metadata, meta_client, meta_depts, doc_type>>
    /\ UNCHANGED <<store, besideIngest>>

\* The caller of process_pdf is done with what it got.
PdfDone ==
    /\ pdf_pc \in {"returned", "raised"}
    /\ pdf_pc' = "idle"
    /\ metadata' = <<>>
    /\ meta_client' = <<>>
    /\ meta_depts' = <<>>
    /\ doc_type' = <<>>
    /\ document_type' = "none"
    /\ pdf_raised' = "none"
    /\ extraction' = NoContent
    /\ extracted' = NoData
    /\ pdf_result' = NoResult
    /\ node_id' = 0
    /\ UNCHANGED <<store, kb, besideIngest>>

\* --------------------------------------------- the question at the boundary
\* The questions a client may send, by name, and the number of characters of
\* each.
Submitted == {"", "hi", "who", "q1", "x500", "x501", "quit"}
CharCount(q) ==
    CASE q = "" -> 0
      [] q = "hi" -> 2
      [] q = "who" -> 3
      [] q = "quit" -> 4
      [] q = "q1" -> 20
      [] q = "q2" -> 20
      [] q = "x500" -> 500
      [] q = "x501" -> 501

\* The validation of QueryRequest.question
QueryRequestValid(q) == CharCount(q) >= min_length /\ CharCount(q) <= max_length

\* POST /query with a body the model rejects: FastAPI answers 422 and
\* process_query does not run.
Refuse(q) ==
    /\ ~QueryRequestValid(q)
    /\ refused' = refused \cup {q}
    /\ UNCHANGED besideRefused

\* POST /query
PostQuery(t, q, inc) ==
    \/ QueryRequestValid(q) /\ process_query(t, q, inc)
    \/ pc[t] = "idle" /\ Refuse(q)

\* The id process_query_task.delay() gives to the task it queues: one no
\* task has had.
FreshTaskId == CHOOSE k \in TaskIds : task_state[k] = "none"

\* The handler of POST /query/async: process_query_task.delay(question,
\* include_cypher) puts the message of a new task in the queue, and the
\* reply names the task as PENDING. No QAService is involved.
submit_async_query(k, q, inc) ==
    /\ \E j \in TaskIds : task_state[j] = "none"
    /\ k = FreshTaskId
    /\ task_state' = [task_state EXCEPT ![k] = "PENDING"]
    /\ task_args' = [task_args EXCEPT ![k] = [question |-> q, include_cypher |-> inc]]
    /\ UNCHANGED <<task_runner, task_reply>>
    /\ UNCHANGED besideTasks

\* POST /query/async: the same QueryRequest is validated, then the handler
\* runs.
PostQueryAsync(k, q, inc) ==
    \/ QueryRequestValid(q) /\ submit_async_query(k, q, inc)
    \/ Refuse(q)

\* The words the interactive loop takes as commands.
CliCommands == {"quit", "exit", "q", "help", "info", "debug"}

\* One turn of the loop of run_interactive that reaches qa_service.query:
\* the stripped line is not empty and is no command.
CliTurn(t, user_input, show_cypher) ==
    /\ user_input # ""
    /\ user_input \notin CliCommands
    /\ Query(t, user_input, show_cypher)

\* ----------------------------------------------------------- get_qa_service
\* get_qa_service() enters: `if _global_qa_service is None`. The caller is
\* in no other call of its own.
GetQaServiceCheck(t) ==
    /\ gqs_pc[t] = "idle"
    /\ pc[t] = "idle"
    /\ gqs_pc' = [gqs_pc EXCEPT ![t] = IF global_id = "none" THEN "create" ELSE "return"]
    /\ UNCHANGED <<instances, global_id, got>>
    /\ UNCHANGED <<graph_schema, _chain, _global_qa_service, besideSingleton>>

\* graph = neo4j_service.get_graph(); _global_qa_service = QAService(graph):
\* a new object, with no chain, takes the place of whatever the name held.
\* The objects are told apart by the caller that constructed them (a caller
\* constructs one at most: the name is set once its call is over), and the
\* chain cache of each is the entry of _chain under that name.
GetQaServiceCreate(t) ==
    /\ gqs_pc[t] = "create"
    /\ \E ctor_ok, test_ok \in BOOLEAN :
        /\ graph_schema' = GetGraph("api", ctor_ok)
        /\ IF GetGraphRaises("api", ctor_ok, test_ok)
           THEN /\ gqs_pc' = [gqs_pc EXCEPT ![t] = "idle"]
                /\ UNCHANGED <<instances, global_id, _global_qa_service, _chain>>
           ELSE /\ instances' = instances + 1
                /\ global_id' = t
                /\ _global_qa_service' = TRUE
                /\ _chain' = [_chain EXCEPT ![t] = NoneChain]
                /\ gqs_pc' = [gqs_pc EXCEPT ![t] = "return"]
    /\ UNCHANGED got
    /\ UNCHANGED besideSingleton

\* return _global_qa_service
GetQaServiceReturn(t) ==
    /\ gqs_pc[t] = "return"
    /\ got' = [got EXCEPT ![t] = global_id]
    /\ gqs_pc' = [gqs_pc EXCEPT ![t] = "idle"]
    /\ UNCHANGED <<instances, global_id>>
    /\ UNCHANGED <<graph_schema, _chain, _global_qa_service, besideSingleton>>

\* qa_service.refresh_schema() on the object get_qa_service() returned to
\* the caller, as the handler of POST /admin/refresh-schema calls it; the
\* object need not be the one _global_qa_service names now.
RefreshGot(t) ==
    /\ gqs_pc[t] = "idle"
    /\ got[t] # "none"
    /\ Enter(t, "service", "refresh", got[t], "", FALSE, "rf_graph")
    /\ UNCHANGED <<store, shared, outside>>

\* ------------------------------------ Neo4jService and AsyncNeo4jService

\* Neo4jService.get_graph(): the graph it holds, else connect(), which
\* assigns self._graph when the constructor returned and then runs its test
\* query; the call is synchronous.
get_graph(ctor_ok, test_ok) ==
    /\ conn_pc = "idle"
    /\ IF _graph # "None"
       THEN /\ conn_pc' = "returned"
            /\ UNCHANGED <<_graph, connects>>
       ELSE /\ connects["graph"] < MaxConnects
            /\ connects' = [connects EXCEPT !["graph"] = @ + 1]
            /\ _graph' = HandleAfterConnect(ctor_ok, test_ok)
            /\ conn_pc' = IF ConnectRaises(ctor_ok, test_ok) THEN "raised" ELSE "returned"
    /\ UNCHANGED <<_driver, close_pc>>
    /\ UNCHANGED besideConn

\* Neo4jService.close(): `if self._graph is not None: self._graph = None`
close ==
    /\ _graph # "None"
    /\ _graph' = "None"
    /\ UNCHANGED <<_driver, conn_pc, close_pc, connects>>
    /\ UNCHANGED besideConn

\* The caller of connect / get_graph is done with what it got.
ConnDone ==
    /\ conn_pc # "idle"
    /\ conn_pc' = "idle"
    /\ UNCHANGED <<_graph, _driver, close_pc, connects>>
    /\ UNCHANGED besideConn

\* AsyncNeo4jService.get_driver(), as any coroutine c calls it: the driver
\* the service holds, else connect(), which assigns self._driver as soon as
\* the constructor returned and is then suspended at its test query; a
\* constructor that raises leaves connect() as Neo4jConnectionError. The
\* coroutine is suspended at each await, so another get_driver(), which
\* constructs a driver of its own when close() dropped this one, or close(),
\* may run in between.
get_driver(c, ctor_ok) ==
    /\ eq_pc[c] = "idle"
    /\ IF _driver # "None"
       THEN /\ eq_pc' = [eq_pc EXCEPT ![c] = "run"]
            /\ driver' = [driver EXCEPT ![c] = _driver]
            /\ UNCHANGED <<_driver, connects, eq_error>>
       ELSE /\ connects["driver"] < MaxConnects
            /\ connects' = [connects EXCEPT !["driver"] = @ + 1]
            /\ _driver' = HandleAfterConnect(ctor_ok, TRUE)
            /\ eq_pc' = [eq_pc EXCEPT ![c] = IF ctor_ok THEN "connect" ELSE "raised"]
            /\ eq_error' = [eq_error EXCEPT ![c] =
                               IF ctor_ok THEN "none" ELSE "Neo4jConnectionError"]
            /\ UNCHANGED driver
    /\ UNCHANGED <<records, eq_return, eq_warned>>
    /\ UNCHANGED besideExecute

\* connect() after its test query, `await session.run("RETURN 1 as test")`:
\* a failed test leaves it as Neo4jConnectionError (the driver stays
\* assigned); else `return self._driver` gives the attribute as it is now:
\* None when close() ran meanwhile, the driver of another coroutine when
\* that one connected after the close.
ConnectTest(c, test_ok) ==
    /\ eq_pc[c] = "connect"
    /\ IF ConnectRaises(TRUE, test_ok)
       THEN /\ eq_pc' = [eq_pc EXCEPT ![c] = "raised"]
            /\ eq_error' = [eq_error EXCEPT ![c] = "Neo4jConnectionError"]
            /\ UNCHANGED driver
       ELSE /\ eq_pc' = [eq_pc EXCEPT ![c] = "run"]
            /\ driver' = [driver EXCEPT ![c] = _driver]
            /\ UNCHANGED eq_error
    /\ UNCHANGED <<records, eq_return, eq_warned>>
    /\ UNCHANGED besideExec

\* The caller of get_driver() alone is done with what it got.
GetDriverDone(c) ==
    /\ eq_pc[c] \in {"run", "raised"}
    /\ eq_pc' = [eq_pc EXCEPT ![c] = "idle"]
    /\ driver' = [driver EXCEPT ![c] = "None"]
    /\ eq_error' = [eq_error EXCEPT ![c] = "none"]
    /\ UNCHANGED <<records, eq_return, eq_warned>>
    /\ UNCHANGED besideExec

\* AsyncNeo4jService.close() up to its await: `if self._driver is not None:
\* await self._driver.close()`. The attribute still names the driver while
\* the call is suspended.
CloseAwait ==
    /\ close_pc = "idle"
    /\ _driver # "None"
    /\ close_pc' = "closing"
    /\ UNCHANGED <<_graph, _driver, conn_pc, connects>>
    /\ UNCHANGED besideConn

\* close() resumed: `self._driver = None` when driver.close() returned; when
\* it raised, close() raises and the attribute keeps the driver.
CloseResume(ok) ==
    /\ close_pc = "closing"
    /\ close_pc' = "idle"
    /\ _driver' = IF ok THEN "None" ELSE _driver
    /\ UNCHANGED <<_graph, conn_pc, connects>>
    /\ UNCHANGED besideConn

\* ------------------------------------- AsyncNeo4jService.execute_query
\* The first n rows of the store's answer, in store order (a row is named by
\* its place).
Rows(n) == [i \in 1..n |-> i]

\* records[:settings.query_max_results] when there are more rows than that
LimitResults(rs) ==
    IF Len(rs) > query_max_results THEN SubSeq(rs, 1, query_max_results) ELSE rs

\* The row counts the store answers with: none, one, and the counts around
\* query_max_results.
RowCounts == {0, 1, query_max_results - 1, query_max_results, MaxRows}

\* `async with driver.session() as session`, which raises AttributeError on
\* a `driver` that is None, and
\* result = await session.run(query, parameters or {}, timeout=timeout_seconds)
ExecuteRun(c, ok) ==
    /\ eq_pc[c] = "run"
    /\ eq_pc' = [eq_pc EXCEPT ![c] = IF driver[c] # "None" /\ ok THEN "data" ELSE "raised"]
    /\ eq_error' = [eq_error EXCEPT ![c] =
                       IF driver[c] = "None" THEN "AttributeError"
                       ELSE IF ok THEN "none" ELSE "driver"]
    /\ UNCHANGED <<driver, records, eq_return, eq_warned>>
    /\ UNCHANGED besideExec

\* records = await result.data() gives n rows (or raises), and the list is
\* cut to query_max_results with a logged warning.
ExecuteData(c, n, ok) ==
    /\ eq_pc[c] = "data"
    /\ IF ok
       THEN /\ eq_pc' = [eq_pc EXCEPT ![c] = "exit"]
            /\ records' = [records EXCEPT ![c] = Rows(n)]
            /\ eq_warned' = [eq_warned EXCEPT ![c] = n > query_max_results]
            /\ UNCHANGED eq_error
       ELSE /\ eq_pc' = [eq_pc EXCEPT ![c] = "raised"]
            /\ eq_error' = [eq_error EXCEPT ![c] = "driver"]
            /\ UNCHANGED <<records, eq_warned>>
    /\ UNCHANGED <<driver, eq_return>>
    /\ UNCHANGED besideExec

\* `return records` leaves the `async with driver.session()` block: the exit
\* of the session is awaited, and the list is returned unless it raises.
ExecuteExit(c, ok) ==
    /\ eq_pc[c] = "exit"
    /\ IF ok
       THEN /\ eq_pc' = [eq_pc EXCEPT ![c] = "returned"]
            /\ eq_return' = [eq_return EXCEPT ![c] = LimitResults(records[c])]
            /\ UNCHANGED eq_error
       ELSE /\ eq_pc' = [eq_pc EXCEPT ![c] = "raised"]
            /\ eq_error' = [eq_error EXCEPT ![c] = "driver"]
            /\ UNCHANGED eq_return
    /\ UNCHANGED <<driver, records, eq_warned>>
    /\ UNCHANGED besideExec

\* execute_query(query, parameters, timeout), one step of the call c makes
execute_query(c) ==
    \/ \E ctor_ok \in BOOLEAN : get_driver(c, ctor_ok)
    \/ \E test_ok \in BOOLEAN : ConnectTest(c, test_ok)
    \/ \E ok \in BOOLEAN : ExecuteRun(c, ok)
    \/ \E n \in RowCounts : \E ok \in BOOLEAN : ExecuteData(c, n, ok)
    \/ \E ok \in BOOLEAN : ExecuteExit(c, ok)

\* The caller of execute_query is done with what it got.
ExecuteDone(c) ==
    /\ eq_pc[c] \in {"returned", "raised"}
    /\ eq_pc' = [eq_pc EXCEPT ![c] = "idle"]
    /\ driver' = [driver EXCEPT ![c] = "None"]
    /\ records' = [records EXCEPT ![c] = <<>>]
    /\ eq_return' = [eq_return EXCEPT ![c] = <<>>]
    /\ eq_warned' = [eq_warned EXCEPT ![c] = FALSE]
    /\ eq_error' = [eq_error EXCEPT ![c] = "none"]
    /\ UNCHANGED besideExec

\* ------------------------------------------------- the background tasks
\* task.ready(), task.successful()
Ready(state) == state \in {"SUCCESS", "FAILURE"}
Successful(state) == state = "SUCCESS"

\* get_task_result(task_id): the dict it returns for a task in this state
get_task_result(state) ==
    IF ~Ready(state)
    THEN [error |-> "Task not completed yet", status |-> state]
    ELSE IF Successful(state)
    THEN [question |-> "q1", answer |-> <<"answer">>]
    ELSE [error |-> "Task failed", details |-> "exception"]

\* GET /query/result/{task_id}: retrieve_task_result
retrieve_task_result(k) ==
    /\ task_state[k] # "none"
    /\ LET result == get_task_result(task_state[k])
       IN  task_reply' = [task_reply EXCEPT ![k] =
              IF "error" \in DOMAIN result
              THEN [status |-> "FAILURE", error |-> result.error]
              ELSE [status |-> "SUCCESS", error |-> ""]]
    /\ UNCHANGED <<task_state, task_args, task_runner>>
    /\ UNCHANGED besideTasks

\* ------------------------------------------------------------ time passing
\* The values time.time() can return, in units of 1/TicksPerSecond of a
\* second: whole seconds up to MaxClock and the instants just after and just
\* before one.
Instants ==
    {0, 5, TicksPerSecond - 1}
        \cup {s * TicksPerSecond : s \in {1, query_timeout, MaxClock}}

\* Time passes on the wall clock that time.time() reads.
Tick(now) ==
    /\ now > clock
    /\ clock' = now
    /\ UNCHANGED besideClock

\* The wall clock is set back (time.time() is not monotonic): the next read
\* of it is lower than the last.
ClockSetBack(now) ==
    /\ now < clock
    /\ clock' = now
    /\ UNCHANGED besideClock

\* ------------------------------------------------------------ specifications
\* The inputs and outcomes a specification draws from. A specification with
\* `rich` payloads draws every question, flag, chain result and synthesis
\* outcome, and of the passage lists the empty one and those of MaxPassages
\* entries; one without draws one of each, and varies the schedule.
QuestionsOf(rich) == IF rich THEN Questions ELSE {"q1"}
FlagsOf(rich) == IF rich THEN BOOLEAN ELSE {FALSE}
FoundOf(rich, out) ==
    IF rich /\ out = "ok"
    THEN {r \in Rankings(dbDocs, K) : Len(r) \in {0, MaxPassages}}
    ELSE {<<>>}
ResultsOf(rich, out, q, v, ctx) ==
    IF out # "ok" \/ v = NoGraph THEN {[valid |-> TRUE, has_result |-> FALSE, result |-> <<>>, steps |-> <<>>]}
    ELSE IF rich THEN GraphResults(q, v, ctx)
    ELSE {[valid |-> TRUE, has_result |-> TRUE, result |-> <<"rows">>, steps |-> <<[query |-> GeneratedCypher(q, v, ctx)]>>]}
SynthesisOf(rich) == IF rich THEN SynthesisOutcomes ELSE {"ok"}
ContentsOf(rich, out) == IF rich /\ out = "ok" THEN LlmContents ELSE {<<"answer">>}

\* The steps of a query() call that is under way.
QuerySteps(t, rich) ==
    \/ \E llm_ok \in BOOLEAN : GetChainCheck(t, llm_ok)
    \/ GetChainBuild(t)
    \/ GetChainStore(t)
    \/ GetChainReturn(t)
    \/ \E ok \in BOOLEAN : SemanticStore(t, ok)
    \/ \E out \in SearchOutcomes : \E found \in FoundOf(rich, out) : Semantic(t, out, found)
    \/ \E out \in ChainOutcomes : \E gr \in ResultsOf(rich, out, question[t], chain[t].schema, chain_context[t]) : Structured(t, out, gr)
    \/ \E out \in SynthesisOf(rich) : \E content \in ContentsOf(rich, out) : Synthesize(t, out, content)

\* The steps of a refresh_schema() call that is under way.
RefreshSteps(t) ==
    \/ \E ok \in BOOLEAN : RefreshGraph(t, ok)
    \/ RefreshDrop(t)

\* No other caller of process p is inside a call: the handlers of the API
\* process are `async def` without an await, so the event loop runs each to
\* its end before the next; the CLI loop makes one call at a time.
Alone(t, p) == \A u \in Callers \ {t} : pc[u] = "idle" \/ ProcOf(u) # p

\* Spec: callers on threads share one QAService; their calls interleave
\* statement by statement, and the store changes under them.
Next ==
    \/ \E t \in Callers :
        \/ \E q \in QuestionsOf(FALSE) : \E inc \in FlagsOf(FALSE) : Query(t, q, inc)
        \/ RefreshSchema(t)
        \/ QuerySteps(t, FALSE)
        \/ RefreshSteps(t)
        \/ Return(t)
    \/ IngestGeneral
    \/ \E out \in IndexOutcomes : create_index_from_graph(out)
    \/ \E ok \in BOOLEAN : get_vector_store(ok)

Spec == Init /\ [][Next]_vars

\* SpecQuery: query() calls with every input and outcome, on a fixed schema.
NextQuery ==
    \E t \in Callers :
        \/ \E q \in QuestionsOf(TRUE) : \E inc \in FlagsOf(TRUE) : Query(t, q, inc)
        \/ QuerySteps(t, TRUE)
        \/ Return(t)

SpecQuery == Init /\ [][NextQuery]_vars

\* SpecSeq: one QAService used by one call at a time.
NextSeq ==
    \/ \E t \in Callers :
        /\ Alone(t, "api")
        /\ \/ \E q \in QuestionsOf(FALSE) : \E inc \in FlagsOf(FALSE) : Query(t, q, inc)
           \/ RefreshSchema(t)
           \/ QuerySteps(t, FALSE)
           \/ RefreshSteps(t)
           \/ Return(t)
    \/ IngestGeneral

SpecSeq == Init /\ [][NextSeq]_vars

\* The one caller of a sequential loop (run_interactive of the CLI).
Cli == "c1"

\* SpecTime: query() calls made one after the other by one caller on one
\* QAService, while the wall clock advances between their steps.
NextTime ==
    \/ \E q \in QuestionsOf(TRUE) : \E inc \in FlagsOf(FALSE) : Query(Cli, q, inc)
    \/ QuerySteps(Cli, FALSE)
    \/ Return(Cli)
    \/ \E now \in Instants : Tick(now)
    \/ \E now \in Instants : ClockSetBack(now)

SpecTime == Init /\ [][NextTime]_vars

\* No other caller is inside a call: each has not started one, or holds the
\* result of one that ended.
Parked(t) == \A u \in Callers \ {t} : pc[u] \in {"idle", "returned", "raised"}

\* SpecTwice: query() calls made one after the other on one QAService whose
\* graph nobody changes or refreshes; the language model and the store answer
\* as functions of what they are given, the retriever as it happens to.
NextTwice ==
    \E t \in Callers :
        /\ Parked(t)
        /\ \/ \E q \in QuestionsOf(TRUE) : \E inc \in FlagsOf(FALSE) : Query(t, q, inc)
           \/ \E llm_ok \in BOOLEAN : GetChainCheck(t, llm_ok)
           \/ GetChainBuild(t)
           \/ GetChainStore(t)
           \/ GetChainReturn(t)
           \/ \E ok \in BOOLEAN : SemanticStore(t, ok)
           \/ \E out \in SearchOutcomes : \E found \in FoundOf(TRUE, out) : Semantic(t, out, found)
           \/ \E out \in ChainOutcomes : \E gr \in ResultsOf(FALSE, out, question[t], chain[t].schema, chain_context[t]) : Structured(t, out, gr)
           \/ \E out \in SynthesisOf(FALSE) : \E content \in ContentsOf(FALSE, out) : Synthesize(t, out, content)
           \/ Return(t)

SpecTwice == Init /\ [][NextTwice]_vars

\* SpecExecute: calls of AsyncNeo4jService.execute_query that coroutines of
\* one event loop make on one service, interleaved at their awaits, with a
\* store that may refuse the connection, fail a query, or answer with any of
\* the row counts; close() of the service, itself suspended at its await,
\* may run in between.
NextExecute ==
    \/ \E c \in Coroutines : execute_query(c)
    \/ \E c \in Coroutines : ExecuteDone(c)
    \/ CloseAwait
    \/ \E ok \in BOOLEAN : CloseResume(ok)

SpecExecute == Init /\ [][NextExecute]_vars

\* SpecIngest: calls of process_pdf, with every hint and classifier answer.
NextIngest ==
    \/ \E hint \in DocTypeHints : \E client \in ClientNames : \E depts \in DepartmentLists :
          \E ok \in BOOLEAN : process_pdf(hint, client, depts, ok)
    \/ \E llm_ok \in BOOLEAN : \E content \in ClassifierContents : Classify(llm_ok, content)
    \/ \E ok \in BOOLEAN : \E new_labels \in BOOLEAN : Route(ok, new_labels)
    \/ \E llm_ok, create_ok, link_ok \in BOOLEAN : \E content \in ContractContents :
          ProcessContract(llm_ok, content, create_ok, link_ok)
    \/ \E llm_ok, create_ok \in BOOLEAN : \E content \in PolicyContents :
          \E fail \in 0..MaxDepts : \E order \in StoreOrders :
             ProcessPolicy(llm_ok, content, create_ok, fail, order)
    \/ PdfDone

SpecIngest == Init /\ [][NextIngest]_vars

\* SpecAdmin: the API process serving POST /admin/ingest for documents that
\* go the general path, POST /query and POST /admin/refresh-schema, one
\* handler at a time (the handlers are coroutines that never yield). The
\* graph of the process is connected when the ingestion service is imported.
GeneralHints == {h \in DocTypeHints : h = <<>> \/ RouteOf(h) = "general"}
GeneralContents == {c \in ClassifierContents : RouteOf(ClassifyDocument(c)) = "general"}

NextAdmin ==
    \/ \E t \in Callers :
        \/ /\ Alone(t, "api")
           /\ pdf_pc = "idle"
           /\ \/ \E q \in QuestionsOf(FALSE) : \E inc \in FlagsOf(FALSE) : process_query(t, q, inc)
              \/ refresh_schema(t)
        \/ /\ pc[t] # "idle"
           /\ \/ QuerySteps(t, FALSE)
              \/ RefreshSteps(t)
              \/ Return(t)
    \/ /\ \A t \in Callers : pc[t] = "idle"
       /\ \/ \E hint \in GeneralHints : \E ok \in BOOLEAN : process_pdf(hint, <<>>, <<>>, ok)
          \/ \E llm_ok \in BOOLEAN : \E content \in GeneralContents : Classify(llm_ok, content)
          \/ \E ok \in BOOLEAN : \E new_labels \in BOOLEAN : Route(ok, new_labels)
          \/ PdfDone

SpecAdmin == Init /\ [][NextAdmin]_vars

\* The caller that stands for the worker process where the other stands for
\* the API process or the CLI.
Worker == "c2"

\* SpecBoundary: every way a question comes in, with questions of every
\* length: POST /query and the interactive loop (caller Cli, whose calls
\* follow one another), POST /query/async, which only queues a task, and the
\* worker process (caller Worker) that runs the queued tasks. Nothing orders
\* the worker and the others: a request or a turn may start, and run, while
\* a task runs, and a task may start while a query() of the others runs.
NextBoundary ==
    \/ \E q \in Submitted : \E inc \in FlagsOf(FALSE) :
        \/ PostQuery(Cli, q, inc)
        \/ CliTurn(Cli, q, inc)
        \/ \E k \in TaskIds :
            /\ QueryRequestValid(q)
                  => Cardinality({j \in TaskIds : task_state[j] # "none"}) < MaxQueued
            /\ PostQueryAsync(k, q, inc)
    \/ \E k \in TaskIds : process_query_task(Worker, k)
    \/ \E t \in Callers :
        \/ TaskSteps(t)
        \/ QuerySteps(t, FALSE)
        \/ Return(t)
    \/ \E k \in TaskIds : TaskFinish(k)

SpecBoundary == Init /\ [][NextBoundary]_vars

\* SpecSingleton: callers on threads of one process call get_qa_service(),
\* and their calls interleave statement by statement; a caller calls
\* refresh_schema() on the object it was given, whichever that is. The store
\* gains labels in between.
NextSingleton ==
    \/ \E t \in Callers :
        \/ GetQaServiceCheck(t)
        \/ GetQaServiceCreate(t)
        \/ GetQaServiceReturn(t)
        \/ RefreshGot(t)
        \/ RefreshSteps(t)
        \/ Return(t)
    \/ IngestGeneral

SpecSingleton == Init /\ [][NextSingleton]_vars

\* SpecConnect: the two connection services, with a store that may refuse
\* the connection or fail the test query. The calls on Neo4jService are
\* synchronous; those on AsyncNeo4jService are made by coroutines of one
\* event loop and interleave at their awaits.
NextConnect ==
    \/ \E ctor_ok, test_ok \in BOOLEAN : get_graph(ctor_ok, test_ok)
    \/ close
    \/ ConnDone
    \/ \E c \in Coroutines : \E ctor_ok \in BOOLEAN : get_driver(c, ctor_ok)
    \/ \E c \in Coroutines : \E test_ok \in BOOLEAN : ConnectTest(c, test_ok)
    \/ \E c \in Coroutines : GetDriverDone(c)
    \/ CloseAwait
    \/ \E ok \in BOOLEAN : CloseResume(ok)

SpecConnect == Init /\ [][NextConnect]_vars

\* SpecTasks: tasks are submitted, run in the worker, and their result is
\* asked for at any time.
NextTasks ==
    \/ \E k \in TaskIds :
        \/ \E q \in QuestionsOf(FALSE) : \E inc \in FlagsOf(FALSE) : submit_async_query(k, q, inc)
        \/ process_query_task(Cli, k)
        \/ TaskFinish(k)
        \/ retrieve_task_result(k)
    \/ TaskSteps(Cli)
    \/ QuerySteps(Cli, FALSE)
    \/ Return(Cli)

SpecTasks == Init /\ [][NextTasks]_vars

\* SpecApi: the entry points of the deployment. The API process serves the
\* query endpoint and the admin refresh, one handler at a time; the worker
\* process runs the background query tasks, one at a time.
NextApi ==
    \/ \E t \in Callers :
        \/ /\ Alone(t, "api")
           /\ \/ \E q \in QuestionsOf(FALSE) : \E inc \in FlagsOf(FALSE) : process_query(t, q, inc)
              \/ refresh_schema(t)
        \/ /\ Alone(t, "worker")
           /\ \E k \in TaskIds : process_query_task(t, k)
        \/ /\ pc[t] # "idle"
           /\ Alone(t, ProcOf(t))
           /\ \/ TaskSteps(t)
              \/ QuerySteps(t, FALSE)
              \/ RefreshSteps(t)
              \/ Return(t)
    \/ \E k \in TaskIds :
        \/ \E q \in QuestionsOf(FALSE) : \E inc \in FlagsOf(FALSE) : submit_async_query(k, q, inc)
        \/ TaskFinish(k)
    \/ IngestGeneral

SpecApi == InitApi /\ [][NextApi]_vars

\* ===================================================================== claims
\* A caller that is inside query().
InQuery(t) == op[t] = "query"

\* No refresh_schema() call stands between its two statements.
NoRefreshHalfDone == \A t \in Callers : pc[t] # "rf_drop"

\* C1: under every interleaving of refresh_schema() and query() on one
\* service, _get_chain never hands out a chain bound to another snapshot than
\* the one the graph holds at that moment (refreshing the graph and dropping
\* the chain act as one step). The code runs them as two statements with no
\* lock, so this fails.
C1_ObtainedChainIsCurrent ==
    [][\A t \in Callers :
        (pc[t] = "gc_ret" /\ pc'[t] = "semantic" /\ chain'[t] # NoneChain)
            => chain'[t].schema = graph_schema'[ProcOf(t)]]_vars

\* C2: once no refresh_schema() is half done, the cached chain of the shared
\* service, if any, is bound to the snapshot the graph holds: a query that was
\* building its chain during the refresh must not leave the old one cached.
\* The code stores the chain it built without looking again, so this fails.
C2_CacheNeverHoldsOldSnapshot ==
    (NoRefreshHalfDone /\ _chain[GlobalService] # NoneChain)
        => _chain[GlobalService].schema = graph_schema["api"]

\* C3: the semantic retrieval step of query() never ends the call: whether
\* similarity_search raises or finds nothing, the call goes on to the
\* structured step with an empty passage list, no error is ever caused by the
\* retrieval, and a response returned after a failed retrieval lists no
\* passages.
C3_RetrievalNeverAborts ==
    [][\A t \in Callers :
        /\ (pc[t] \in {"semantic", "search"} /\ pc'[t] \notin {"semantic", "search"})
            => /\ pc'[t] = "structured"
               /\ error'[t] = NoError
               /\ (vec_raised'[t] => docs'[t] = <<>>)
        /\ (pc'[t] = "raised" => error'[t].cause # "VectorError")
        /\ (pc'[t] = "returned" /\ InQuery(t) /\ vec_raised'[t])
            => response'[t].metadata.context_used = <<>>]_vars

\* C3 witness: a query whose retrieval raised has returned a response.
C3_Witness ==
    \E t \in Callers :
        pc[t] = "returned" /\ InQuery(t) /\ vec_raised[t] /\ response[t].question = question[t]

\* C4: a query() call whose structured path failed returns no response and
\* raises QueryExecutionError whose details hold the question of the call.
\* The path failed when no chain could be built or chain.invoke raised, which
\* is how the call comes to raise, and when the generated query did not pass
\* the validation: such a call raises, and no response exists unless the
\* generated query passed. The chain returns a dict for a query that failed
\* the validation, and query() builds a response from it.
C4_StructuredFailureRaises ==
    \A t \in Callers :
        InQuery(t)
            => /\ chain_run[t].validation = "failed" => pc[t] = "raised"
               /\ response[t] # NoResponse => chain_run[t].validation = "passed"
               /\ pc[t] = "raised"
                    => /\ response[t] = NoResponse
                       /\ error[t].type = "QueryExecutionError"
                       /\ error[t].details.question = question[t]
                       /\ error[t].cause \in {"LLMProviderError", "AttributeError"} \cup ChainFailures

\* C5: the synthesis step never ends the call with an exception: when the
\* model cannot be initialised or its invocation raises, query() returns a
\* response whose answer is the error annotation followed by the raw
\* structured result.
C5_SynthesisFailureDegrades ==
    [][\A t \in Callers :
        (pc[t] = "synth" /\ pc'[t] # "synth")
            => /\ pc'[t] = "returned"
               /\ error'[t] = NoError
               /\ response'[t].question = question[t]
               /\ (synth_status'[t] # "ok"
                    => /\ Len(response'[t].answer) = 3 + Len(structured_data[t])
                       /\ response'[t].answer[1] = "Error synthesizing answer: "
                       /\ response'[t].answer[2] = synth_status'[t]
                       /\ SubSeq(response'[t].answer, 4, Len(response'[t].answer)) = structured_data[t])]_vars

\* C5 witness: the invocation of the model raised and the response carries
\* the rows of the structured result.
C5_Witness ==
    \E t \in Callers :
        /\ pc[t] = "returned" /\ InQuery(t)
        /\ synth_status[t] = "invoke_error"
        /\ structured_data[t] = <<"rows">>
        /\ response[t].answer # <<>>

\* C6: no step of a query() call changes the store (nodes, properties,
\* indexes). The retrieval step calls Neo4jVector.from_existing_graph, which
\* creates the index and writes embeddings, so this fails.
C6_QueryLeavesStoreUnchanged ==
    [][(\E t \in Callers : InQuery(t) /\ pc'[t] # pc[t]) => store' = store]_vars

\* C7: a response built over a non-empty structured result has a non-empty
\* answer, also when no passage was retrieved. The code returns the content
\* of the model as it is, so an empty content gives an empty answer.
C7_AnswerNonEmpty ==
    \A t \in Callers :
        (pc[t] = "returned" /\ InQuery(t) /\ structured_data[t] # <<>>)
            => response[t].answer # <<>>

\* C8: on one QAService used by one call at a time, _get_chain builds a chain
\* exactly when it finds none cached (the first query, and the first after a
\* refresh_schema(), which leaves the cache empty); a query that finds a chain
\* cached leaves the cache as it is; the only statement of query() that
\* writes the cache is the store of a newly built chain into an empty cache;
\* and the question is resolved only with the chain the cache then holds.
C8_BuiltExactlyWhenCold ==
    [][\A t \in Callers :
        /\ (InQuery(t) /\ pc[t] = "gc_check" /\ pc'[t] # "gc_check")
            => ((pc'[t] \in {"gc_build", "raised"}) <=> (_chain[svc[t]] = NoneChain))
        /\ (InQuery(t) /\ pc'[t] # pc[t] /\ pc[t] # "gc_store") => _chain' = _chain
        /\ (pc[t] = "gc_store" /\ pc'[t] # "gc_store")
            => (_chain[svc[t]] = NoneChain /\ _chain'[svc[t]] = ChainOf(graph_schema[ProcOf(t)]))
        /\ (pc'[t] = "structured")
            => (chain'[t] # NoneChain /\ chain'[t] = _chain'[svc[t]])
        /\ (pc[t] = "rf_drop" /\ pc'[t] = "returned") => _chain'[svc[t]] = NoneChain]_vars

\* C8 witness: a query took the cached chain without building one, and that
\* chain is bound to a snapshot read by a refresh (a rebuild after refresh).
C8_Witness ==
    \E t \in Callers :
        /\ InQuery(t) /\ pc[t] = "structured"
        /\ built[t] = NoneChain
        /\ chain[t] = ChainOf(1)

\* C9: in one process a chain is constructed only when none was constructed
\* since startup or since the last invalidation, never once per request. The
\* query endpoint and the background task construct a QAService, and so a
\* chain, for every request, so this fails.
C9_OneResolverPerProcess ==
    [][\A t \in Callers :
        (pc[t] = "gc_build" /\ pc'[t] = "gc_store") => ~warm[ProcOf(t)]]_vars

\* The response without its answer (the content of the model is an input).
SansAnswer(r) == [r EXCEPT !.answer = <<>>]

\* C10: two query() calls with the same question, flag, structured result and
\* synthesis outcome, one whose retrieval raised and one whose retrieval found
\* nothing, hand the same hints to the chain, give the same prompt to the
\* synthesis model and return the same response (the same answer too when the
\* answer does not come from the model).
C10_RaisedEqualsEmpty ==
    \A t, u \in Callers :
        ( /\ pc[t] = "returned" /\ InQuery(t) /\ vec_raised[t]
          /\ pc[u] = "returned" /\ InQuery(u) /\ ~vec_raised[u] /\ docs[u] = <<>>
          /\ question[t] = question[u]
          /\ include_cypher[t] = include_cypher[u]
          /\ structured_data[t] = structured_data[u]
          /\ cypher_query[t] = cypher_query[u]
          /\ synth_status[t] = synth_status[u] )
            => /\ chain_context[t] = chain_context[u]
               /\ synth_prompt[t] = synth_prompt[u]
               /\ SansAnswer(response[t]) = SansAnswer(response[u])
               /\ (synth_status[t] # "ok" => response[t] = response[u])

\* C10 witness: such a pair of calls, both returned.
C10_Witness ==
    \E t, u \in Callers :
        /\ pc[t] = "returned" /\ InQuery(t) /\ vec_raised[t]
        /\ pc[u] = "returned" /\ InQuery(u) /\ ~vec_raised[u] /\ docs[u] = <<>>
        /\ question[t] = question[u]
        /\ include_cypher[t] = include_cypher[u]
        /\ structured_data[t] = structured_data[u]
        /\ cypher_query[t] = cypher_query[u]
        /\ synth_status[t] = synth_status[u]
        /\ response[t] = response[u]

\* The conditions the orchestrator absorbs: the retrieval was unavailable or
\* found nothing; the synthesis step failed.
RetrievalDegraded(t) == docs[t] = <<>>
SynthesisDegraded(t) == synth_status[t] \notin {"none", "ok"}

\* A query() call that has returned its response.
Answered(t) == pc[t] = "returned" /\ InQuery(t)

\* C11: a degraded retrieval or a failed synthesis never makes query() raise,
\* and the metadata of the response records it: two responses with the same
\* metadata come from calls that degraded in the same way. The code records a
\* failed synthesis only in the answer text, so the metadata of a call whose
\* synthesis failed equals that of a call whose synthesis succeeded.
C11_DegradationRecordedInMetadata ==
    /\ \A t \in Callers :
        (pc[t] = "raised" /\ InQuery(t)) => error[t].cause \notin ({"VectorError"} \cup SynthesisOutcomes)
    /\ \A t, u \in Callers :
        (Answered(t) /\ Answered(u) /\ response[t].metadata = response[u].metadata)
            => /\ RetrievalDegraded(t) <=> RetrievalDegraded(u)
               /\ SynthesisDegraded(t) <=> SynthesisDegraded(u)

\* C12: the steps of one query() call come in order: the retrieval starts
\* only when _get_chain has returned; the synthesis starts only from the
\* structured step, when the retrieval has left its hints (found or degraded)
\* and chain.invoke has returned; the response is returned only from the
\* synthesis step; a call raises only from _get_chain or from the structured
\* step, and a call that raised has not run the synthesis.
C12_StepsInOrder ==
    [][\A t \in Callers :
        (pc'[t] # pc[t] /\ op'[t] = "query")
            => /\ (pc'[t] = "gc_check") => pc[t] \in {"idle", "task_query"}
               /\ (pc'[t] = "semantic") => (pc[t] = "gc_ret" /\ chain_context[t] = <<>>)
               /\ (pc'[t] = "search") => (pc[t] = "semantic" /\ chain_context[t] = <<>>)
               /\ (pc'[t] = "structured")
                    => (pc[t] \in {"semantic", "search"} /\ chain_context'[t] # <<>>)
               /\ (pc'[t] = "synth")
                    => /\ pc[t] = "structured"
                       /\ chain_context[t] # <<>>
                       /\ chain_run'[t].validation # "none"
                       /\ synth_status'[t] = "none"
               /\ (pc'[t] = "returned") => (pc[t] = "synth" /\ synth_status'[t] # "none")
               /\ (pc'[t] = "raised")
                    => /\ pc[t] \in {"gc_check", "structured"}
                       /\ synth_status'[t] = "none"
                       /\ response'[t] = NoResponse]_vars

\* C12 witness: a call that built its chain, whose retrieval degraded and
\* whose synthesis answered, has returned.
C12_Witness ==
    \E t \in Callers :
        /\ Answered(t) /\ built[t] # NoneChain /\ vec_raised[t]
        /\ chain_run[t].validation = "passed" /\ synth_status[t] = "ok"

\* C13: the response has a cypher_query entry exactly when include_cypher is
\* true and the chain reported a generated query; the entry is that query
\* text, the one the chain ran; with include_cypher false there is none.
C13_CypherOnlyOnRequest ==
    \A t \in Callers :
        Answered(t)
            => /\ ("cypher_query" \in DOMAIN response[t]) <=> (include_cypher[t] /\ cypher_query[t] # <<>>)
               /\ ("cypher_query" \in DOMAIN response[t])
                    => (response[t].cypher_query = cypher_query[t] /\ response[t].cypher_query = chain_run[t].executed)
               /\ ~include_cypher[t] => "cypher_query" \notin DOMAIN response[t]

\* C13 witness: a response that carries the query generated with a hint, and
\* at the same time a response without it for a call that did not ask.
C13_Witness ==
    \E t, u \in Callers :
        /\ Answered(t) /\ include_cypher[t] /\ docs[t] # <<>>
        /\ "cypher_query" \in DOMAIN response[t] /\ Len(response[t].cypher_query) > 3
        /\ Answered(u) /\ ~include_cypher[u] /\ cypher_query[u] # <<>>

\* C14: a response returned by query() carries the question of the call, an
\* answer, and metadata with the configured provider, the model configured
\* for that provider, the passages retrieved, the structured result, and
\* execution_time_ms, which is the difference in whole milliseconds (the
\* fraction dropped) between the wall clock read at the start of the call
\* (start_time is read when the call starts, before _get_chain, and kept) and
\* the wall clock read at the end of the synthesis step.
C14_ResponseShape ==
    [][\A t \in Callers :
        /\ (pc[t] = "idle" /\ pc'[t] = "gc_check") => start_time'[t] = clock'
        /\ (pc[t] # "idle" /\ pc'[t] # "idle") => start_time'[t] = start_time[t]
        /\ (pc[t] = "synth" /\ pc'[t] = "returned")
            => /\ response'[t].question = question[t]
               /\ "answer" \in DOMAIN response'[t]
               /\ response'[t].metadata.provider = llm_provider
               /\ response'[t].metadata.provider = "openai" => response'[t].metadata.model = openai_model
               /\ response'[t].metadata.provider = "groq" => response'[t].metadata.model = groq_model
               /\ response'[t].metadata.provider \in {"openai", "groq"}
               /\ response'[t].metadata.context_used = docs[t]
               /\ response'[t].metadata.structured_source = structured_data[t]
               /\ LET ms == response'[t].metadata.execution_time_ms
                      d == 1000 * (clock' - start_time[t])
                  IN  IF d >= 0
                      THEN ms * TicksPerSecond <= d /\ d < (ms + 1) * TicksPerSecond
                      ELSE ms * TicksPerSecond >= d /\ d > (ms - 1) * TicksPerSecond]_vars

\* C14 witness: a call that started at a later time than 0 returned after two
\* seconds or more.
C14_Witness ==
    \E t \in Callers :
        /\ Answered(t) /\ start_time[t] > 0
        /\ response[t].metadata.execution_time_ms >= 2000
        /\ response[t].question = "q2"

\* C15: a generated query that failed the validation is never run against the
\* store, and the call then raises instead of returning a response. The chain
\* hands query() a result dict in that case too (an empty query text, an
\* answer made from no rows), and query() builds a response from it.
C15_InvalidQueryFailsClosed ==
    \A t \in Callers :
        chain_run[t].validation = "failed"
            => /\ chain_run[t].executed = <<>>
               /\ ~Answered(t)

\* C16: a call never stands at chain.invoke for longer than query_timeout
\* seconds of store execution: it has raised by then. query() sets no timer and
\* the Neo4jGraph is constructed without a timeout, so the call waits for as
\* long as the store takes.
C16_StructuredStepBounded ==
    \A t \in Callers :
        pc[t] = "structured"
            => clock - invoked_at[t] <= query_timeout * TicksPerSecond

\* C18: two query() calls with the same question, made one after the other on
\* one service with no change of the graph and no refresh, report the same
\* generated query and the same structured result. The generation prompt
\* holds the hints of the retrieval, which may raise in one call and find a
\* passage in the other, so the generated query differs.
C18_SameQuestionSameQuery ==
    \A t, u \in Callers :
        (Answered(t) /\ Answered(u) /\ question[t] = question[u])
            => /\ cypher_query[t] = cypher_query[u]
               /\ structured_data[t] = structured_data[u]

\* The category the taxonomy gives to each cause of a fatal failure.
CategoryOf(cause) ==
    CASE cause = "TranslationFailed" -> "QueryGenerationError"
      [] cause = "StoreFailed" -> "QueryExecutionError"
      [] cause = "introspection" -> "SchemaUnavailable"
      [] OTHER -> "any"

\* C19: a call that raised carries the category of its cause: a failed
\* translation QueryGenerationError, a store failure QueryExecutionError, a
\* failed introspection in refresh_schema() SchemaUnavailable. query() raises
\* QueryExecutionError whatever the cause, and refresh_schema() lets the
\* exception of the graph through as it is.
C19_FailureCategories ==
    \A t \in Callers :
        (pc[t] = "raised" /\ CategoryOf(error[t].cause) # "any")
            => error[t].type = CategoryOf(error[t].cause)

\* C17: execute_query returns the first query_max_results rows in store order
\* when there are more, the whole list otherwise, does not raise for the
\* number of rows, and what it returns tells the caller whether rows were cut:
\* a cut list differs from what a store holding exactly query_max_results rows
\* gives. The code logs a warning and returns the bare list, so the two are
\* the same value.
C17_TruncationFlagged ==
    \A c \in Coroutines :
        /\ eq_pc[c] = "returned"
            => /\ eq_return[c] = (IF Len(records[c]) > query_max_results
                                  THEN SubSeq(records[c], 1, query_max_results)
                                  ELSE records[c])
               /\ (Len(records[c]) > query_max_results)
                    => eq_return[c] # LimitResults(Rows(query_max_results))
        /\ eq_pc[c] = "raised"
            => eq_error[c] \in {"Neo4jConnectionError", "AttributeError", "driver"}

\* C20: the classification in process_pdf never raises, and a document that
\* was processed went to exactly one of contract, policy, general: to general
\* whenever the hint or the classifier's answer is not exactly contract or
\* policy. The call of the classifying model is not guarded, so its failure
\* leaves process_pdf as an exception.
C20_ClassificationTotal ==
    /\ pdf_raised # "classification"
    /\ pdf_pc = "returned"
        => /\ document_type \in {"contract", "policy", "general"}
           /\ (doc_type \notin {<<"contract">>, <<"policy">>}) => document_type = "general"
           /\ (doc_type = <<"contract">>) => document_type = "contract"
           /\ (doc_type = <<"policy">>) => document_type = "policy"


\* The processor of the running ingestion got an answer from the extraction
\* model, and the answer is malformed: not JSON, or JSON that is no object.
Malformed(content) == content # NoContent /\ (~content.parses \/ content.kind # "object")

\* The record built from the request metadata when the answer cannot be used.
FallbackRecord ==
    [title |-> Filename,
     client_name |-> IF RouteOf(doc_type) = "contract" THEN meta_client ELSE <<>>,
     departments |-> IF RouteOf(doc_type) = "policy" THEN meta_depts ELSE <<>>]

\* The Contract or Policy node the running ingestion created, if any: the
\* node that carries the id its processor drew. A call that raised before
\* its CREATE has none.
NodeOfJob(label) == {n \in dbNodes : n.label = label /\ n.id = node_id}

\* C21: an ingestion whose extraction answer is malformed (not JSON, or JSON
\* but not an object) does not abort on it: unless a store write fails, it
\* returns, having used the fallback record and created the node.
C21_MalformedExtractionFallsBack ==
    (pdf_pc \in {"returned", "raised"} /\ Malformed(extraction) /\ pdf_raised \notin {"write", "link"})
        => /\ pdf_pc = "returned"
           /\ extracted = FallbackRecord
           /\ \E n \in dbNodes : n.id = Cardinality(dbNodes) /\ n.title = Filename

\* C22: a contract ingestion that returned reports a linked client only when
\* a FOR_CLIENT relationship from its Contract node was created; with no
\* matching Client the node exists and the linked client is null.
C22_LinkedClientOnlyWhenLinked ==
    (pdf_pc = "returned" /\ document_type = "contract")
        => /\ NodeOfJob("Contract") # {}
           /\ pdf_result.status = "success"
           /\ (pdf_result.linked_client # <<>>
                 <=> \E l \in dbLinks : l.from = node_id /\ l.type = "FOR_CLIENT")

\* C25: a policy ingestion that returned created its Policy node, and
\* linked_departments holds exactly the Department nodes that received an
\* APPLIES_TO relationship from it.
C25_LinkedDepartmentsExact ==
    (pdf_pc = "returned" /\ document_type = "policy")
        => /\ NodeOfJob("Policy") # {}
           /\ {pdf_result.linked_departments[i] : i \in DOMAIN pdf_result.linked_departments}
                = {l.to : l \in {x \in dbLinks : x.from = node_id /\ x.type = "APPLIES_TO"}}

\* C29: a contract or policy ingestion that raises leaves no node of its own
\* in the store: the nodes are those the store held before the processor ran.
C29_FailedIngestionLeavesNoNode ==
    [][(pdf_pc = "route" /\ pdf_pc' = "raised") => dbNodes' = dbNodes]_vars

\* C23: with the handlers of the API process running one at a time, a query
\* of the endpoint is issued after every ingestion that completed, so the
\* chain that translates it is bound to the vocabulary the store has now.
C23_QueryAfterIngestionSeesNewSchema ==
    \A t \in Callers :
        (InQuery(t) /\ entry[t] = "endpoint" /\ chain[t] # NoneChain) => chain[t].schema = dbSchema

\* C24: on every entry path, a question that reaches QAService.query() has
\* between min_length and max_length characters.
C24_QuestionLengthChecked ==
    \A t \in Callers :
        InQuery(t) => (CharCount(question[t]) >= min_length /\ CharCount(question[t]) <= max_length)

\* C28: when refresh_schema() raises because the introspection failed, the
\* cached chain and the schema snapshot of the graph are what they were
\* before the call, and a cached chain is still bound to that snapshot.
C28_FailedRefreshChangesNothing ==
    [][\A t \in Callers :
        (pc[t] = "rf_graph" /\ pc'[t] = "raised")
            => /\ _chain' = _chain
               /\ graph_schema' = graph_schema
               /\ (_chain'[svc[t]] # NoneChain
                     => _chain'[svc[t]].schema = graph_schema'[ProcOf(t)])]_vars

\* C28 witness: a refresh raised from the introspection while the service
\* holds a chain, after the store's vocabulary changed.
C28_Witness ==
    \E t \in Callers :
        /\ pc[t] = "raised" /\ op[t] = "refresh"
        /\ error[t].cause = "introspection"
        /\ _chain[svc[t]] = ChainOf(0)
        /\ graph_schema[ProcOf(t)] = 0
        /\ dbSchema = 1

\* C26: get_qa_service() constructs one QAService, and every call returns
\* that same object, however the first calls interleave.
C26_OneGlobalService ==
    /\ instances <= 1
    /\ \A t, u \in Callers : (got[t] # "none" /\ got[u] # "none") => got[t] = got[u]

\* C27: when connect() raises Neo4jConnectionError, of either service, the
\* service is left holding no graph and no driver, so that the next get
\* opens a fresh connection.
C27_NoHandleAfterFailedConnect ==
    [][/\ (conn_pc # "raised" /\ conn_pc' = "raised") => _graph' = "None"
       /\ \A c \in Coroutines :
            (eq_pc[c] # "raised" /\ eq_pc'[c] = "raised" /\ eq_error'[c] = "Neo4jConnectionError")
                => _driver' = "None"]_vars

\* C30: the result endpoint answers SUCCESS exactly when the task has
\* succeeded, and FAILURE only when it has failed: a task that is pending
\* or in progress is never answered FAILURE.
C30_ResultStatusFollowsTask ==
    [][\A k \in TaskIds :
        task_reply'[k] # task_reply[k]
            => /\ (task_reply'[k].status = "SUCCESS" <=> task_state[k] = "SUCCESS")
               /\ (task_reply'[k].status = "FAILURE" => task_state[k] = "FAILURE")]_vars
====
